---- MODULE Spec2Model ----
(***************************************************************************)
(* Transaction reconstruction (analyze_asset_buys_sells.py) and valuation  *)
(* (comprehensive_asset_analysis.py) of the capital-flow-explorer scripts. *)
(*                                                                         *)
(* Representation of the Python values:                                    *)
(*   - a calendar date is a day ordinal inside a window around the         *)
(*     reference end date; its "%Y-%m-%d" string is the pair of its        *)
(*     zero-padded decimal digits <<tens, units>>;                         *)
(*   - a timestamp key "<date>T<time>" is <<tens, units, time>>, the       *)
(*     digits of the date followed by one digit for the time of day;       *)
(*   - strings compare lexicographically, digit by digit, as str does;     *)
(*   - None is <<>> and a present optional number v is <<v>>;              *)
(*   - a float is an integer rounded to Precision significant bits,        *)
(*     round-half-to-even, after every addition and subtraction.           *)
(***************************************************************************)
EXTENDS Integers, Sequences, FiniteSets, TLC

VARIABLES fn, time_series, transactions, nav_time_series, purchase_price,
          date_str, ret,
          headers, values, cell, metric_indices, asset_metrics,
          data, visited,
          full_analysis_data, volatility_map, asset_name, asset_sell_date,
          already_matched, preset_file, full_analysis_file, writes, pc, assets

vars == <<fn, time_series, transactions, nav_time_series, purchase_price,
          date_str, ret, headers, values, cell, metric_indices, asset_metrics,
          data, visited,
          full_analysis_data, volatility_map, asset_name, asset_sell_date,
          already_matched, preset_file, full_analysis_file, writes, pc, assets>>

\* the arguments of the valuation calls, of the report extraction calls and
\* of the tree walks
txVars == <<time_series, transactions, nav_time_series, purchase_price, date_str>>
extractVars == <<headers, values, cell, metric_indices, asset_metrics>>
walkVars == <<data, visited>>

\* the arguments of the volatility backfill calls, the files and the position
\* of update_zero_volatility.main, and the assets valued by
\* comprehensive_asset_analysis.main
backfillVars == <<full_analysis_data, volatility_map, asset_name, asset_sell_date,
                  already_matched>>
mainVars == <<preset_file, full_analysis_file, writes, pc>>
otherVars == <<backfillVars, mainVars, assets>>

\* ---------------------------------------------------------------- bounds
DaysBefore == 2
MaxKeys == 3
MaxNavKeys == 2
MaxEvents == 3
MaxTod == 1
Precision == 3
MaxHeaders == 2
MaxEntries == 2
MaxNodes == 3
MaxPresetLines == 2
MaxMap == 2
MaxAssets == 3
DepthBound == 2

\* REFERENCE_END_DATE = datetime(2025, 11, 29): the ordinal of that day in
\* the window of modelled days.
REFERENCE_END_DATE == 11

\* the modelled days: DaysBefore days before the reference end date, that
\* date, and the day after it
Days == (REFERENCE_END_DATE - DaysBefore)..(REFERENCE_END_DATE + 1)
TimesOfDay == 0..MaxTod
NavValues == {1, 3, 10}
Overrides == {<<>>, <<-1>>, <<0>>, <<2>>}
None == <<>>

\* ------------------------------------------------------- Python helpers
Min(a, b) == IF a < b THEN a ELSE b

\* str.__lt__ on strings of digits
StrLess(a, b) ==
  \E k \in 1..(Min(Len(a), Len(b)) + 1) :
     /\ \A j \in 1..(k - 1) : a[j] = b[j]
     /\ \/ k > Len(a) /\ k <= Len(b)
        \/ k <= Len(a) /\ k <= Len(b) /\ a[k] < b[k]

\* datetime.strftime("%Y-%m-%d")
strftime(d) == <<d \div 10, d % 10>>

\* datetime.strptime(s, "%Y-%m-%d")
strptime(s) == 10 * s[1] + s[2]

\* parse_timestamp: ts.split('T')[0], then strptime
parse_timestamp(ts) == strptime(SubSeq(ts, 1, 2))

RECURSIVE InsertInt(_, _)
InsertInt(s, x) ==
  IF s = <<>> THEN <<x>>
  ELSE IF x < s[Len(s)] THEN Append(InsertInt(SubSeq(s, 1, Len(s) - 1), x), s[Len(s)])
  ELSE Append(s, x)

\* sorted() of a list of datetimes (stable, duplicates kept)
RECURSIVE sorted_dates(_)
sorted_dates(s) ==
  IF s = <<>> THEN <<>>
  ELSE InsertInt(sorted_dates(SubSeq(s, 1, Len(s) - 1)), s[Len(s)])

\* sorted(time_series.keys()): the keys of a dict are distinct strings
RECURSIVE sorted_keys(_)
sorted_keys(S) ==
  IF S = {} THEN <<>>
  ELSE LET m == CHOOSE x \in S : \A y \in S \ {x} : StrLess(x, y)
       IN <<m>> \o sorted_keys(S \ {m})

\* float rounding: nearest representable value, ties to even
RECURSIVE Ulp(_)
Ulp(a) == IF a < 2 ^ Precision THEN 1 ELSE 2 * Ulp(a \div 2)

FRound(x) ==
  LET a == IF x < 0 THEN -x ELSE x
      u == Ulp(a)
      q == a \div u
      r == a % u
      m == IF 2 * r < u THEN q
           ELSE IF 2 * r > u THEN q + 1
           ELSE IF q % 2 = 0 THEN q ELSE q + 1
  IN IF x < 0 THEN -(m * u) ELSE m * u

FAdd(a, b) == FRound(a + b)
FSub(a, b) == FRound(a - b)

\* ------------------------------------- analyze_asset_buys_sells.py
Event(action, d) == [action |-> action, date |-> strftime(d)]

\* a gap test that is off by one
IsGapFromOneDay(days_diff) == days_diff >= 1

\* a gap test on whole timestamps: two keys of one day count as a gap
IsGapUnlessNextDay(days_diff) == days_diff # 1

\* line 54: if days_diff > 1
IsGap(days_diff) == days_diff > 1

\* the two events of a gap appended in the wrong order
GapEventsSwapped(current_date, next_date) ==
  <<Event("bought", next_date), Event("sold", current_date)>>

\* lines 55-64: sold on the last day before the gap, rebought on the first after
GapEvents(current_date, next_date) ==
  <<Event("sold", current_date), Event("bought", next_date)>>

\* lines 48-64: the gap loop, from index i on
RECURSIVE GapLoop(_, _, _)
GapLoop(dates, i, acc) ==
  IF i > Len(dates) - 1 THEN acc
  ELSE LET current_date == dates[i]
           next_date == dates[i + 1]
           days_diff == next_date - current_date
       IN GapLoop(dates, i + 1,
                  IF IsGap(days_diff)
                  THEN acc \o GapEvents(current_date, next_date)
                  ELSE acc)

\* a closing test that keeps every holding seen after the reference date open
ClosedBeforeEnd(last_date) == last_date < REFERENCE_END_DATE

\* line 67: last_date.date() != REFERENCE_END_DATE.date()
ClosedAtEnd(last_date) == last_date # REFERENCE_END_DATE

\* the parsed dates left in the insertion order of the keys
UnsortedDates(series) == [k \in 1..Len(series) |-> parse_timestamp(series[k])]

\* line 32: dates = sorted([parse_timestamp(ts) for ts in time_series.keys()])
ParsedDates(series) == sorted_dates([k \in 1..Len(series) |-> parse_timestamp(series[k])])

\* find_buy_sell_dates; the dict is given by its keys in insertion order
find_buy_sell_dates(series) ==
  IF series = <<>> THEN <<>>
  ELSE LET dates == ParsedDates(series)
           first_date == dates[1]
           last_date == dates[Len(dates)]
           scanned == GapLoop(dates, 1, <<Event("bought", first_date)>>)
       IN IF ClosedAtEnd(last_date)
          THEN Append(scanned, Event("sold", last_date))
          ELSE scanned

\* ------------------------------------- comprehensive_asset_analysis.py
\* a datetime compared with a date, which are never equal
DatetimeEqualsDate(ts_date, target_date) == FALSE

\* line 42: ts_date.date() == target_date.date()
IsExactMatch(ts_date, target_date) == ts_date = target_date

\* lines 38-51: the scan of the sorted keys, from index k on
RECURSIVE KeyLoop(_, _, _, _)
KeyLoop(keys, k, target_date, best_match) ==
  IF k > Len(keys) THEN best_match
  ELSE LET ts_key == keys[k]
           ts_date == parse_timestamp(ts_key)
       IN IF IsExactMatch(ts_date, target_date) THEN ts_key
          ELSE IF ts_date > target_date THEN best_match
               ELSE KeyLoop(keys, k + 1, target_date,
                            IF ts_date < target_date THEN ts_key ELSE best_match)

\* find_timestamp_key; the dict is a function from its keys to its values
find_timestamp_key(date, series) ==
  KeyLoop(sorted_keys(DOMAIN series), 1, strptime(date), None)

\* a lookup that falls back to the earliest value of the series
EarliestValue(ts_key, series) ==
  IF ts_key # None /\ ts_key \in DOMAIN series THEN series[ts_key]
  ELSE series[sorted_keys(DOMAIN series)[1]]

\* lines 209, 217: nav_time_series.get(ts, 0.0) if ts else 0.0
ReferenceValue(ts_key, series) ==
  IF ts_key # None /\ ts_key \in DOMAIN series THEN series[ts_key] ELSE 0

\* a pairing that takes whatever event comes next as the sell
AnyEventFollows(events, i) == i + 1 <= Len(events)

\* line 214: i + 1 < len(transactions) and transactions[i + 1]["action"] == "sold"
SellFollows(events, i) == i + 1 <= Len(events) /\ events[i + 1].action = "sold"

\* line 221: last_ts = sorted(nav_time_series.keys())[-1]
LastKey(series) == LET keys == sorted_keys(DOMAIN series) IN keys[Len(keys)]

\* line 227: profit = sell_nav - buy_nav (neither is None here)
Profit(sell_nav, buy_nav) == FSub(sell_nav, buy_nav)

\* an assignment where the accumulation should be
Overwrite(total_profit, profit) == profit

\* line 228: total_profit += profit
Accumulate(total_profit, profit) == FAdd(total_profit, profit)

\* the test without the "> 0" part
OverridePresent(price) == price # None

\* line 232: purchase_price is not None and purchase_price > 0
UseOverride(price) == price # None /\ price[1] > 0

\* the profit subtracted instead of added
PriceMinusProfit(actual_purchase_price, profit) == FSub(actual_purchase_price, profit)

\* line 238: selling_price = actual_purchase_price + profit
SellingPrice(actual_purchase_price, profit) == FAdd(actual_purchase_price, profit)

\* lines 207-248: the detail of the 'bought' event at index i
Detail(events, series, price, i) ==
  LET buy_date == events[i].date
      buy_ts == find_timestamp_key(buy_date, series)
      buy_nav == ReferenceValue(buy_ts, series)
      paired == SellFollows(events, i)
      last_ts == LastKey(series)
      sell_date == IF paired THEN events[i + 1].date
                   ELSE strftime(parse_timestamp(last_ts))
      sell_nav == IF paired
                  THEN ReferenceValue(find_timestamp_key(events[i + 1].date, series), series)
                  ELSE series[last_ts]
      profit == Profit(sell_nav, buy_nav)
      actual_purchase_price == IF UseOverride(price) THEN price[1] ELSE buy_nav
  IN [buy_date |-> buy_date,
      sell_date |-> sell_date,
      purchase_price |-> actual_purchase_price,
      selling_price |-> SellingPrice(actual_purchase_price, profit),
      buy_nav |-> buy_nav,
      sell_nav |-> sell_nav,
      profit |-> profit]

\* lines 204-253: the while loop, from index i on
RECURSIVE PairLoop(_, _, _, _, _, _)
PairLoop(events, series, price, i, total_profit, transactions_detail) ==
  IF i > Len(events)
  THEN [total_profit |-> total_profit,
        transactions_detail |-> transactions_detail,
        error |-> ""]
  ELSE IF events[i].action = "bought"
       THEN LET detail == Detail(events, series, price, i)
            IN PairLoop(events, series, price,
                        IF SellFollows(events, i) THEN i + 2 ELSE i + 1,
                        Accumulate(total_profit, detail.profit),
                        Append(transactions_detail, detail))
       ELSE PairLoop(events, series, price, i + 1, total_profit, transactions_detail)

\* a valuation without the early return of lines 192-198: with no series the
\* 'bought' events are reported as details
ValuedWithoutSeries(events, series, price) ==
  IF DOMAIN series = {}
  THEN [total_profit |-> 0,
        transactions_detail |-> SelectSeq(events, LAMBDA e : e.action = "bought"),
        error |-> ""]
  ELSE PairLoop(events, series, price, 1, 0, <<>>)

\* calculate_profit_and_prices (asset_name is copied to the result unread)
calculate_profit_and_prices(events, series, price) ==
  IF DOMAIN series = {}
  THEN [total_profit |-> 0,
        transactions_detail |-> <<>>,
        error |-> "No NAV time series found"]
  ELSE PairLoop(events, series, price, 1, 0, <<>>)

\* ------------------------------------------------- report values (JSON)
\* A JSON value is a record tagged with its type: null (Python None), a
\* number, a string, a mapping with its entries <<key, value>> in insertion
\* order, or a structured cell (a dict of a values list) with its rawValue,
\* value and command fields, each of them Absent when the dict lacks the key.
\* A string is the sequence of its words and separators; a dict built by the
\* scripts is a function on the keys it holds.
Null == [t |-> "null"]
Absent == [t |-> "absent"]
Num(v) == [t |-> "num", v |-> v]
Str(s) == [t |-> "str", v |-> s]
Mapping(entries) == [t |-> "dict", v |-> entries]
Cell(rawValue, value, command) ==
  [t |-> "cell", rawValue |-> rawValue, value |-> value, command |-> command]

\* dict.get(key) and dict.get(key, default) on a field of a parsed dict
Get(field) == IF field = Absent THEN Null ELSE field
GetOr(field, default) == IF field = Absent THEN default ELSE field

\* d[k] = v and d.get(k) on a dict built by the scripts
EmptyDict == [k \in {} |-> Null]
DictSet(d, k, v) == [x \in DOMAIN d \cup {k} |-> IF x = k THEN v ELSE d[x]]
DictGet(d, k) == IF k \in DOMAIN d THEN d[k] ELSE Null

\* str.lower()
LowerWord(w) ==
  CASE w = "Volatility" -> "volatility"
    [] w = "Interest" -> "interest"
    [] w = "Rate" -> "rate"
    [] w = "Purchase" -> "purchase"
    [] w = "Price" -> "price"
    [] OTHER -> w
lower(s) == [k \in 1..Len(s) |-> LowerWord(s[k])]

\* sub in s
In(sub, s) == \E k \in 0..(Len(s) - Len(sub)) : SubSeq(s, k + 1, k + Len(sub)) = sub

\* 'T' in s
HasT(s) == \E k \in 1..Len(s) : s[k] \in {"T", "Total"}

\* ------------------------------------- header resolution
\* lines 73-78: the lower-cased command and name of a header; a header that
\* is not a dict is its own command and name
Cmd(header) ==
  IF header.t = "dict" THEN lower(GetOr(header.command, Str(<<>>)).v)
  ELSE lower(header.v)
Name(header) ==
  IF header.t = "dict" THEN lower(GetOr(header.name, Str(<<>>)).v)
  ELSE lower(header.v)

\* line 81
MatchesVolatility(cmd, name) ==
  In(<<"volatility">>, cmd) \/ In(<<"volatility">>, name)

\* line 85
MatchesInterestRate(cmd, name) ==
  \/ In(<<"interest">>, cmd)
  \/ In(<<"interest">>, name)
  \/ In(<<"interest", "_", "rate">>, cmd)

\* line 89
MatchesPurchasePrice(cmd, name) ==
  \/ In(<<"purchase">>, cmd)
  \/ In(<<"purchase">>, name)
  \/ In(<<"buy">>, cmd)
  \/ In(<<"buy">>, name)

\* a price predicate without its negative condition
MatchesAnyPrice(cmd, name) == In(<<"price">>, cmd) \/ In(<<"price">>, name)

\* line 93
MatchesPrice(cmd, name) ==
  /\ In(<<"price">>, cmd) \/ In(<<"price">>, name)
  /\ ~In(<<"purchase">>, cmd)
  /\ ~In(<<"purchase">>, name)

\* lines 72-94: the loop over enumerate(headers), from index i on
RECURSIVE HeaderLoop(_, _, _)
HeaderLoop(hs, i, indices) ==
  IF i >= Len(hs) THEN indices
  ELSE LET header == hs[i + 1]
           cmd == Cmd(header)
           name == Name(header)
           m1 == IF MatchesVolatility(cmd, name)
                 THEN DictSet(indices, "volatility", i) ELSE indices
           m2 == IF MatchesInterestRate(cmd, name)
                 THEN DictSet(m1, "interest_rate", i) ELSE m1
           m3 == IF MatchesPurchasePrice(cmd, name)
                 THEN DictSet(m2, "purchase_price", i) ELSE m2
           m4 == IF MatchesPrice(cmd, name)
                 THEN DictSet(m3, "price", i) ELSE m3
       IN HeaderLoop(hs, i + 1, m4)

\* analyze_volatility.extract_volatility_index, from index i on
RECURSIVE VolatilityLoop(_, _)
VolatilityLoop(hs, i) ==
  IF i >= Len(hs) THEN None
  ELSE IF MatchesVolatility(Cmd(hs[i + 1]), Name(hs[i + 1])) THEN <<i>>
  ELSE VolatilityLoop(hs, i + 1)

extract_volatility_index(hs) == VolatilityLoop(hs, 0)

\* ------------------------------------- cell normalisation
\* a cell read by truthiness: a rawValue of 0 gives way to value
TruthyRawValue(c) ==
  IF c.t = "cell"
  THEN IF Get(c.rawValue) \notin {Null, Num(0)} THEN Get(c.rawValue) ELSE Get(c.value)
  ELSE c

\* get_cell_value, and lines 32-35 of analyze_volatility.walk_lines
get_cell_value(c) ==
  IF c.t = "cell"
  THEN IF Get(c.rawValue) # Null THEN Get(c.rawValue) ELSE Get(c.value)
  ELSE c

\* a series test that does not look at the sampled key
AnyNonEmptyMapping(raw_value) == raw_value.t = "dict" /\ raw_value.v # <<>>

\* lines 84-87 (and 107-109 of comprehensive_asset_analysis.py): raw_value is
\* a dict, not empty, its first key is not empty and holds a 'T', and the
\* value at that key is a number
IsTimeSeries(raw_value) ==
  /\ raw_value.t = "dict"
  /\ raw_value.v # <<>>
  /\ LET sample_key == raw_value.v[1][1]
     IN /\ sample_key # <<>>
        /\ HasT(sample_key)
        /\ raw_value.v[1][2].t = "num"

\* analyze_asset_buys_sells.extract_asset_time_series, from the k-th value on
RECURSIVE SeriesLoop(_, _)
SeriesLoop(vals, k) ==
  IF k > Len(vals) THEN Null
  ELSE IF vals[k].t = "cell" /\ IsTimeSeries(Get(vals[k].rawValue))
       THEN Get(vals[k].rawValue)
       ELSE SeriesLoop(vals, k + 1)

extract_asset_time_series(vals) == SeriesLoop(vals, 1)

\* ------------------------------------- metric extraction
\* an extraction that stores null for a metric whose column the node lacks
ExtractedOrNull(indices, vals) ==
  [m \in DOMAIN indices |->
     IF indices[m] < Len(vals) THEN get_cell_value(vals[indices[m] + 1]) ELSE Null]

\* lines 97-100: the metrics whose index lies inside the values list
Extracted(indices, vals) ==
  [m \in {n \in DOMAIN indices : indices[n] < Len(vals)} |->
     get_cell_value(vals[indices[m] + 1])]

\* the keys of time_series_dict: strings and ints, which never compare equal
StrKey(s) == [kind |-> "str", v |-> s]
IntKey(i) == [kind |-> "int", v |-> <<ToString(i)>>]

\* line 110: value.get("command", f"value_{idx}")
CommandKey(value, idx) ==
  IF value.command = Absent THEN StrKey(<<"value_", ToString(idx)>>)
  ELSE StrKey(value.command.v)

\* lines 104-112: the loop over enumerate(values), from index idx on
RECURSIVE TimeSeriesLoop(_, _, _)
TimeSeriesLoop(vals, idx, time_series_dict) ==
  IF idx >= Len(vals) THEN time_series_dict
  ELSE LET value == vals[idx + 1]
       IN IF value.t = "cell" /\ IsTimeSeries(Get(value.rawValue))
          THEN TimeSeriesLoop(vals, idx + 1,
                 DictSet(DictSet(time_series_dict, CommandKey(value, idx), value.rawValue),
                         IntKey(idx), value.rawValue))
          ELSE TimeSeriesLoop(vals, idx + 1, time_series_dict)

\* extract_metrics_from_asset(asset_data, headers), given asset_data["values"]
extract_metrics_from_asset(vals, hs) ==
  DictSet(Extracted(HeaderLoop(hs, 0, EmptyDict), vals), "time_series",
          [t |-> "series", v |-> TimeSeriesLoop(vals, 0, EmptyDict)])

\* main, lines 378-392: the metrics of the assembled per-asset output
comprehensive_data(metrics) ==
  [volatility |-> DictGet(metrics, "volatility"),
   interest_rate |-> DictGet(metrics, "interest_rate"),
   purchase_price |-> DictGet(metrics, "purchase_price")]

\* ------------------------------------------------------------ inputs
Keys == {strftime(d) \o <<t>> : d \in Days, t \in TimesOfDay}
DateStrings == {strftime(d) : d \in Days}

\* the insertion orders of a dict with at most n keys drawn from S
DistinctSeqs(S, n) ==
  UNION {{s \in [1..m -> S] : \A a, b \in 1..m : a # b => s[a] # s[b]} : m \in 0..n}

TimeSeriesInputs == DistinctSeqs(Keys, MaxKeys)

\* NAV series: at most MaxNavKeys keys, one per day except on the eve of the
\* reference end date, which has two keys
NavKeys == {k \in Keys : k[3] = 0 \/ (k[3] = 1 /\ parse_timestamp(k) = REFERENCE_END_DATE - 1)}
NavInputs ==
  UNION {[K -> NavValues] : K \in {K \in SUBSET NavKeys : Cardinality(K) <= MaxNavKeys}}

\* event lists not produced by find_buy_sell_dates: any order of actions,
\* the k-th event dated at the k-th day of the window (wrapping around)
DayAt(k) == (REFERENCE_END_DATE - DaysBefore) + ((k - 1) % Cardinality(Days))
EventInputs ==
  UNION {{[k \in 1..n |-> Event(a[k], DayAt(k))] : a \in [1..n -> {"bought", "sold"}]}
         : n \in 0..MaxEvents}

\* ------------------------------------------------------------ machine
Init ==
  /\ fn = "none"
  /\ time_series = <<>>
  /\ transactions = <<>>
  /\ nav_time_series = <<>>
  /\ purchase_price = None
  /\ date_str = <<>>
  /\ ret = <<>>
  /\ headers = <<>>
  /\ values = <<>>
  /\ cell = Null
  /\ metric_indices = EmptyDict
  /\ asset_metrics = EmptyDict
  /\ data = <<>>
  /\ visited = <<>>
  /\ full_analysis_data = <<>>
  /\ volatility_map = <<>>
  /\ asset_name = <<>>
  /\ asset_sell_date = Null
  /\ already_matched = {}
  /\ preset_file = [exists |-> FALSE, content |-> <<>>]
  /\ full_analysis_file = [exists |-> FALSE, content |-> <<>>]
  /\ writes = <<>>
  /\ pc = "idle"
  /\ assets = <<>>

\* analyze_asset_buys_sells.process_assets: the series of one asset is
\* analysed and its events are stored in asset_buy_sell_dates.json
CallFindBuySellDates ==
  /\ fn = "none"
  /\ \E series \in TimeSeriesInputs :
        /\ fn' = "find_buy_sell_dates"
        /\ time_series' = series
        /\ ret' = find_buy_sell_dates(series)
  /\ UNCHANGED <<transactions, nav_time_series, purchase_price, date_str>>
  /\ UNCHANGED <<extractVars, walkVars, otherVars>>

\* analyze_asset_buys_sells.main: the events of an asset that has some are
\* written to asset_buy_sell_dates.json and the script ends
StoreTransactions ==
  /\ fn = "find_buy_sell_dates"
  /\ ret # <<>>
  /\ fn' = "stored"
  /\ time_series' = <<>>
  /\ UNCHANGED <<transactions, nav_time_series, purchase_price, date_str, ret>>
  /\ UNCHANGED <<extractVars, walkVars, otherVars>>

\* comprehensive_asset_analysis.main, lines 366-382: the stored events of an
\* asset are valued against its NAV series; both must be non-empty
ValueStoredTransactions ==
  /\ fn = "stored"
  /\ \E series \in NavInputs \ {<<>>}, price \in Overrides :
        /\ fn' = "calculate_profit_and_prices"
        /\ transactions' = ret
        /\ nav_time_series' = series
        /\ purchase_price' = price
        /\ ret' = calculate_profit_and_prices(ret, series, price)
  /\ UNCHANGED <<time_series, date_str>>
  /\ UNCHANGED <<extractVars, walkVars, otherVars>>

\* calculate_profit_and_prices called on any event list
CallCalculateProfitAndPrices ==
  /\ fn = "none"
  /\ \E events \in EventInputs, series \in NavInputs, price \in Overrides :
        /\ fn' = "calculate_profit_and_prices"
        /\ transactions' = events
        /\ nav_time_series' = series
        /\ purchase_price' = price
        /\ ret' = calculate_profit_and_prices(events, series, price)
  /\ UNCHANGED <<time_series, date_str>>
  /\ UNCHANGED <<extractVars, walkVars, otherVars>>

\* find_timestamp_key called on any date and series
CallFindTimestampKey ==
  /\ fn = "none"
  /\ \E date \in DateStrings, series \in NavInputs :
        /\ fn' = "find_timestamp_key"
        /\ date_str' = date
        /\ nav_time_series' = series
        /\ ret' = find_timestamp_key(date, series)
  /\ UNCHANGED <<time_series, transactions, purchase_price>>
  /\ UNCHANGED <<extractVars, walkVars, otherVars>>

Next ==
  \/ CallFindBuySellDates
  \/ StoreTransactions
  \/ ValueStoredTransactions
  \/ CallCalculateProfitAndPrices
  \/ CallFindTimestampKey

Spec == Init /\ [][Next]_vars

\* ------------------------------------------- report inputs
HeaderDict(command, name) == [t |-> "dict", command |-> command, name |-> name]

Commands ==
  {<<"volatility">>, <<"interest", "_", "rate">>, <<"purchase", "_", "price">>,
   <<"buy", "_", "price">>, <<"price">>, <<"nav">>}
DisplayNames ==
  {<<"Volatility">>, <<"Interest", " ", "Rate">>, <<"Purchase", " ", "Price">>,
   <<"Price">>}

\* headers with a command only, with a name only, with both, and bare strings
Headers ==
  {HeaderDict(Str(c), Absent) : c \in Commands}
  \cup {HeaderDict(Absent, Str(n)) : n \in DisplayNames}
  \cup {HeaderDict(Str(<<"price">>), Str(<<"Purchase", " ", "Price">>)),
        HeaderDict(Str(<<"purchase", "_", "price">>), Str(<<"Price">>))}
  \cup {Str(<<"Volatility">>), Str(<<"price">>)}

HeaderLists == UNION {[1..n -> Headers] : n \in 0..MaxHeaders}

\* keys of a rawValue mapping: two date-times, a word with a 'T', a date
\* without a time, the empty string
SeriesKeys ==
  {<<"2025-11-27", "T", "00:00:00">>, <<"2025-11-28", "T", "00:00:00">>,
   <<"Total">>, <<"2025-11-30">>, <<>>}
SeriesValues == {Num(1), Str(<<"n/a">>), Null}
Mappings ==
  UNION {{Mapping(s) : s \in {s \in [1..m -> SeriesKeys \X SeriesValues] :
                               \A a, b \in 1..m : a # b => s[a][1] # s[b][1]}}
         : m \in 0..MaxEntries}
NavSeries == Mapping(<<<<<<"2025-11-27", "T", "00:00:00">>, Num(1)>>>>)
MixedSeries ==
  Mapping(<<<<<<"2025-11-27", "T", "00:00:00">>, Num(1)>>, <<<<"Total">>, Str(<<"n/a">>)>>>>)

\* cells: bare scalars and dicts with or without rawValue and value
Cells ==
  {Null, Num(0), Num(5), Str(<<"n/a">>)}
  \cup {Cell(r, v, Absent) : r \in {Absent, Null, Num(0), Num(7), NavSeries},
                             v \in {Absent, Null, Num(3), Str(<<"n/a">>)}}

\* values lists for extract_asset_time_series: one cell holding any mapping,
\* any cell alone, and a short mapping behind a cell that is no series
SeriesValueLists ==
  {<<>>}
  \cup {<<Cell(m, Absent, Absent)>> : m \in Mappings}
  \cup {<<c>> : c \in Cells}
  \cup {<<p, Cell(m, Absent, Absent)>> :
          p \in {Num(5), Cell(Null, Num(3), Absent),
                 Cell(Mapping(<<<<<<"Total">>, Str(<<"n/a">>)>>>>), Absent, Absent)},
          m \in {m \in Mappings : Len(m.v) <= 1}}

\* values lists for extract_metrics_from_asset: the cells below in rotation
MetricCells ==
  <<Num(5), Cell(Null, Num(3), Absent), Cell(NavSeries, Absent, Str(<<"nav_history">>)),
    Cell(Null, Absent, Absent), Cell(NavSeries, Absent, Absent),
    Cell(MixedSeries, Absent, Str(<<"pl_history">>))>>
ValueLists ==
  {[i \in 1..n |-> MetricCells[((i + s) % Len(MetricCells)) + 1]] :
     n \in 0..MaxHeaders, s \in 1..Len(MetricCells)}

\* ------------------------------------------- report extraction machine
\* extract_metrics_from_asset called on the values of a node
CallExtractMetricsFromAsset ==
  /\ fn = "none"
  /\ \E hs \in HeaderLists, vals \in ValueLists :
        /\ fn' = "extract_metrics_from_asset"
        /\ headers' = hs
        /\ values' = vals
        /\ metric_indices' = HeaderLoop(hs, 0, EmptyDict)
        /\ ret' = extract_metrics_from_asset(vals, hs)
  /\ UNCHANGED <<cell, asset_metrics>>
  /\ UNCHANGED <<txVars, walkVars, otherVars>>

\* comprehensive_asset_analysis.main, lines 378-396: the metrics of the asset
\* are read into its output record
AssembleComprehensiveData ==
  /\ fn = "extract_metrics_from_asset"
  /\ fn' = "main"
  /\ asset_metrics' = ret
  /\ ret' = comprehensive_data(ret)
  /\ UNCHANGED <<headers, values, cell, metric_indices>>
  /\ UNCHANGED <<txVars, walkVars, otherVars>>

\* analyze_volatility.extract_volatility_index called on the headers
CallExtractVolatilityIndex ==
  /\ fn = "none"
  /\ \E hs \in HeaderLists :
        /\ fn' = "extract_volatility_index"
        /\ headers' = hs
        /\ metric_indices' = HeaderLoop(hs, 0, EmptyDict)
        /\ ret' = extract_volatility_index(hs)
  /\ UNCHANGED <<values, cell, asset_metrics>>
  /\ UNCHANGED <<txVars, walkVars, otherVars>>

\* get_cell_value called on a cell
CallGetCellValue ==
  /\ fn = "none"
  /\ \E c \in Cells :
        /\ fn' = "get_cell_value"
        /\ cell' = c
        /\ ret' = get_cell_value(c)
  /\ UNCHANGED <<headers, values, metric_indices, asset_metrics>>
  /\ UNCHANGED <<txVars, walkVars, otherVars>>

\* extract_asset_time_series called on the values of a node
CallExtractAssetTimeSeries ==
  /\ fn = "none"
  /\ \E vals \in SeriesValueLists :
        /\ fn' = "extract_asset_time_series"
        /\ values' = vals
        /\ ret' = extract_asset_time_series(vals)
  /\ UNCHANGED <<headers, cell, metric_indices, asset_metrics>>
  /\ UNCHANGED <<txVars, walkVars, otherVars>>

NextExtract ==
  \/ CallExtractMetricsFromAsset
  \/ AssembleComprehensiveData
  \/ CallExtractVolatilityIndex
  \/ CallGetCellValue
  \/ CallExtractAssetTimeSeries

SpecExtract == Init /\ [][NextExtract]_vars

\* ------------------------------------------- report tree
\* data["resultLine"] is held flat: its nodes are numbered from 1, lines[k]
\* holds the name and the values of node k, parent[k] < k is the node whose
\* subLines list holds node k (0 for resultLine itself), and a subLines list
\* holds its nodes by increasing number. A record appended by a walk carries
\* the number of the node it was made from in its field line.

\* if x: on a parsed value
Truthy(x) == x \notin {Null, Num(0), Str(<<>>), Mapping(<<>>)}

\* a walk that does not descend below a node without a name
SubLinesOfNamed(d, line) ==
  IF line = 0 \/ Truthy(Get(d.lines[line].name))
  THEN SelectSeq([k \in 1..Len(d.parent) |-> k], LAMBDA k : d.parent[k] = line)
  ELSE <<>>

\* line.get("subLines")
SubLines(d, line) ==
  SelectSeq([k \in 1..Len(d.parent) |-> k], LAMBDA k : d.parent[k] = line)

\* a merge in which the later occurrence of a key replaces the stored one
LaterWins(stored, metrics) ==
  [key \in DOMAIN stored \cup DOMAIN metrics |->
     IF key \in DOMAIN metrics THEN metrics[key] ELSE stored[key]]

\* lines 137-139: a key of the later occurrence is stored when the asset
\* lacks it or holds None for it
MergeMetrics(stored, metrics) ==
  [key \in DOMAIN stored \cup DOMAIN metrics |->
     IF key \in DOMAIN metrics /\ (key \notin DOMAIN stored \/ stored[key] = Null)
     THEN metrics[key] ELSE stored[key]]

\* lines 133-139
StoreMetrics(assets_dict, name, metrics) ==
  IF name \notin DOMAIN assets_dict THEN DictSet(assets_dict, name, metrics)
  ELSE DictSet(assets_dict, name, MergeMetrics(assets_dict[name], metrics))

\* extract_all_assets_with_metrics.walk_lines, from the i-th line of lines on
RECURSIVE WalkMetrics(_, _, _, _, _)
WalkMetrics(d, hs, lines, i, acc) ==
  IF i > Len(lines) THEN acc
  ELSE LET line == lines[i]
           name == Get(d.lines[line].name)
           stored == IF Truthy(name)
                     THEN StoreMetrics(acc.assets_dict, name.v,
                            extract_metrics_from_asset(d.lines[line].values, hs))
                     ELSE acc.assets_dict
           below == WalkMetrics(d, hs, SubLines(d, line), 1,
                                [assets_dict |-> stored,
                                 visited |-> Append(acc.visited, line)])
       IN WalkMetrics(d, hs, lines, i + 1, below)

\* extract_all_assets_with_metrics(data, headers)
extract_all_assets_with_metrics(d, hs) ==
  WalkMetrics(d, hs, SubLines(d, 0), 1, [assets_dict |-> EmptyDict, visited |-> <<>>])

\* a record put in front of the results
PrependRecord(results, record) == <<record>> \o results

\* results.append(record)
AppendRecord(results, record) == Append(results, record)

\* analyze_volatility.walk_lines, from the i-th line of lines on
RECURSIVE WalkVolatility(_, _, _, _, _)
WalkVolatility(d, volatility_idx, lines, i, acc) ==
  IF i > Len(lines) THEN acc
  ELSE LET line == lines[i]
           name == Get(d.lines[line].name)
           vals == d.lines[line].values
           read == Truthy(name) /\ volatility_idx # None /\ volatility_idx[1] < Len(vals)
           volatility == IF read THEN get_cell_value(vals[volatility_idx[1] + 1]) ELSE Null
           results == IF volatility # Null
                      THEN AppendRecord(acc.results,
                             [asset |-> name.v, volatility |-> volatility, line |-> line])
                      ELSE acc.results
           below == WalkVolatility(d, volatility_idx, SubLines(d, line), 1,
                                   [results |-> results,
                                    visited |-> Append(acc.visited, line)])
       IN WalkVolatility(d, volatility_idx, lines, i + 1, below)

\* strptime on the date and the time of a key "<date>T<time>"
DayOf(s) ==
  CASE s = "2025-11-27" -> REFERENCE_END_DATE - 2
    [] s = "2025-11-28" -> REFERENCE_END_DATE - 1
    [] s = "2025-11-29" -> REFERENCE_END_DATE
    [] s = "2025-11-30" -> REFERENCE_END_DATE + 1
TimeOf(s) == IF s = "00:00:00" THEN 0 ELSE 1
TimestampKey(key) == strftime(DayOf(key[1])) \o <<TimeOf(key[3])>>

\* time_series.keys()
SeriesKeysOf(series) == [k \in 1..Len(series.v) |-> TimestampKey(series.v[k][1])]

\* lines 111-112: min and max of the parsed keys
first_date(keys) ==
  strftime(CHOOSE d \in {parse_timestamp(keys[k]) : k \in 1..Len(keys)} :
             \A j \in 1..Len(keys) : d <= parse_timestamp(keys[j]))
last_date(keys) ==
  strftime(CHOOSE d \in {parse_timestamp(keys[k]) : k \in 1..Len(keys)} :
             \A j \in 1..Len(keys) : d >= parse_timestamp(keys[j]))

\* lines 116-117
unique_key(name, keys, trans) ==
  <<name, first_date(keys), last_date(keys),
    [k \in 1..Len(trans) |-> <<trans[k].action, trans[k].date>>]>>

\* process_assets.walk_lines, from the i-th line of lines on
RECURSIVE WalkAssets(_, _, _, _)
WalkAssets(d, lines, i, acc) ==
  IF i > Len(lines) THEN acc
  ELSE LET line == lines[i]
           name == Get(d.lines[line].name)
           series == IF Truthy(name) THEN extract_asset_time_series(d.lines[line].values)
                     ELSE Null
           keys == IF Truthy(series) THEN SeriesKeysOf(series) ELSE <<>>
           trans == find_buy_sell_dates(keys)
           fresh == trans # <<>> /\ unique_key(name.v, keys, trans) \notin acc.seen
           below == WalkAssets(d, SubLines(d, line), 1,
                      [results |-> IF fresh
                                   THEN Append(acc.results,
                                          [asset |-> name.v, transactions |-> trans,
                                           first_date |-> first_date(keys),
                                           last_date |-> last_date(keys),
                                           line |-> line])
                                   ELSE acc.results,
                       seen |-> IF fresh
                                THEN acc.seen \cup {unique_key(name.v, keys, trans)}
                                ELSE acc.seen,
                       visited |-> Append(acc.visited, line)])
       IN WalkAssets(d, lines, i + 1, below)

\* process_assets(data)
process_assets(d) ==
  WalkAssets(d, SubLines(d, 0), 1, [results |-> <<>>, seen |-> {}, visited |-> <<>>])

\* ------------------------------------------- report tree inputs
Line(name, vals) == [name |-> name, values |-> vals]
Parents(n) == {p \in [1..n -> 0..(n - 1)] : \A k \in 1..n : p[k] < k}
Forest(p, l) == [parent |-> p, lines |-> l]

\* the headers of the walked reports
WalkHeaders ==
  <<HeaderDict(Str(<<"volatility">>), Absent),
    HeaderDict(Str(<<"interest", "_", "rate">>), Str(<<"Interest", " ", "Rate">>))>>

\* lines of the metrics report: groups without a name, and two assets with a
\* volatility only, with a null volatility and an interest rate, or with both
MetricLines ==
  {Line(Absent, <<Num(5)>>),
   Line(Str(<<>>), <<Num(7), Num(3)>>),
   Line(Str(<<"A">>), <<Num(5)>>),
   Line(Str(<<"A">>), <<Cell(Null, Absent, Absent), Num(2)>>),
   Line(Str(<<"A">>), <<Num(7), Num(3)>>),
   Line(Str(<<"B">>), <<Cell(Null, Absent, Absent), Num(2)>>)}

\* lines of the volatility report: a group without a name, two assets with
\* a volatility, one with a null volatility
VolatilityLines ==
  {Line(Absent, <<Num(5)>>),
   Line(Str(<<"A">>), <<Num(5)>>),
   Line(Str(<<"A">>), <<Cell(Null, Absent, Absent)>>),
   Line(Str(<<"B">>), <<Cell(Null, Num(3), Absent)>>)}

\* lines of the security report: a series of one day, a series of two days
\* the second of which is the reference end date, an empty one
OneDaySeries == Mapping(<<<<<<"2025-11-27", "T", "00:00:00">>, Num(1)>>>>)
TwoDaySeries ==
  Mapping(<<<<<<"2025-11-29", "T", "00:00:00">>, Num(1)>>,
            <<<<"2025-11-27", "T", "12:00:00">>, Num(3)>>>>)
SecurityLines ==
  {Line(Absent, <<Cell(OneDaySeries, Absent, Absent)>>),
   Line(Str(<<"A">>), <<Cell(OneDaySeries, Absent, Absent)>>),
   Line(Str(<<"A">>), <<Num(5), Cell(TwoDaySeries, Absent, Absent)>>),
   Line(Str(<<"B">>), <<Cell(OneDaySeries, Absent, Absent)>>),
   Line(Str(<<"B">>), <<Cell(Mapping(<<>>), Absent, Absent)>>)}

\* ------------------------------------------- report walk machine
\* comprehensive_asset_analysis.main: the metrics preset is walked
CallExtractAllAssetsWithMetrics ==
  /\ fn = "none"
  /\ \E n \in 0..MaxNodes : \E p \in Parents(n), l \in [1..n -> MetricLines] :
        LET d == Forest(p, l)
            walked == extract_all_assets_with_metrics(d, WalkHeaders)
        IN /\ fn' = "extract_all_assets_with_metrics"
           /\ data' = d
           /\ headers' = WalkHeaders
           /\ visited' = walked.visited
           /\ ret' = walked.assets_dict
  /\ UNCHANGED <<values, cell, metric_indices, asset_metrics>>
  /\ UNCHANGED <<txVars, otherVars>>

\* analyze_volatility.main, lines 50-57: the index of the volatility column
\* is resolved and the report is walked
CallWalkLines ==
  /\ fn = "none"
  /\ \E n \in 0..MaxNodes : \E p \in Parents(n), l \in [1..n -> VolatilityLines] :
        LET d == Forest(p, l)
            walked == WalkVolatility(d, extract_volatility_index(WalkHeaders),
                                     SubLines(d, 0), 1,
                                     [results |-> <<>>, visited |-> <<>>])
        IN /\ fn' = "walk_lines"
           /\ data' = d
           /\ headers' = WalkHeaders
           /\ visited' = walked.visited
           /\ ret' = walked.results
  /\ UNCHANGED <<values, cell, metric_indices, asset_metrics>>
  /\ UNCHANGED <<txVars, otherVars>>

\* analyze_asset_buys_sells.main: the security report is walked
CallProcessAssets ==
  /\ fn = "none"
  /\ \E n \in 0..MaxNodes : \E p \in Parents(n), l \in [1..n -> SecurityLines] :
        LET d == Forest(p, l)
            walked == process_assets(d)
        IN /\ fn' = "process_assets"
           /\ data' = d
           /\ visited' = walked.visited
           /\ ret' = walked.results
  /\ UNCHANGED extractVars
  /\ UNCHANGED <<txVars, otherVars>>

NextWalk ==
  \/ CallExtractAllAssetsWithMetrics
  \/ CallWalkLines
  \/ CallProcessAssets

SpecWalk == Init /\ [][NextWalk]_vars



\* ------------------------------------------- volatility backfill
\* update_zero_volatility.py. A date is a string of one word, or of a date
\* word, 'T' and a time word. assets_map holds its entries in insertion
\* order; a call that ends by an exception returns its name in raised.

\* lines 30-36: strptime with the four formats, then strftime; a word that
\* no format parses is returned as it is
Reformat(w) ==
  CASE w = "2025/11/27" -> "2025-11-27"
    [] w = "28/11/2025" -> "2025-11-28"
    [] OTHER -> w

\* lines 24-25: date_str.split('T')[0]
DatePart(s) ==
  LET t == CHOOSE k \in 1..(Len(s) + 1) :
             /\ k = Len(s) + 1 \/ s[k] = "T"
             /\ \A j \in 1..(k - 1) : s[j] # "T"
  IN SubSeq(s, 1, t - 1)

\* parse_date(date_str)
parse_date(x) ==
  IF ~Truthy(x) THEN Null
  ELSE LET part == DatePart(x.v)
       IN IF Len(part) = 1 THEN Str(<<Reformat(part[1])>>) ELSE Str(part)

\* str(raw_value)
PyStr(x) == IF x.t = "str" THEN x ELSE Str(<<ToString(x.v)>>)

\* lines 71-73: the value at the greatest key of a mapping
LatestValue(raw) ==
  LET k == CHOOSE a \in 1..Len(raw.v) :
             \A b \in 1..Len(raw.v) :
               a = b \/ StrLess(TimestampKey(raw.v[b][1]), TimestampKey(raw.v[a][1]))
  IN raw.v[k][2]

\* lines 67-75: the volatility after a 'vola' cell
VolaOf(raw, volatility) ==
  IF raw.t = "num" /\ raw.v # 0 THEN <<raw.v>>
  ELSE IF raw.t = "dict" /\ raw.v # <<>>
  THEN LET latest_value == LatestValue(raw)
       IN IF latest_value.t = "num" /\ latest_value.v # 0
          THEN <<latest_value.v>> ELSE volatility
  ELSE volatility

\* value.get on a cell: a dict has it, a bare scalar does not
IsDict(x) == x.t \in {"cell", "dict"}

\* lines 61-80: the loop over the values of a line, from the j-th on
RECURSIVE PresetValues(_, _, _)
PresetValues(vals, j, acc) ==
  IF j > Len(vals) \/ acc.raised # "" THEN acc
  ELSE LET value == vals[j]
       IN IF ~IsDict(value)
          THEN [acc EXCEPT !.raised = "AttributeError"]
          ELSE LET command == IF value.t = "cell"
                              THEN GetOr(value.command, Str(<<>>)) ELSE Str(<<>>)
                   raw_value == IF value.t = "cell" THEN Get(value.rawValue) ELSE Null
               IN PresetValues(vals, j + 1,
                    IF command = Str(<<"vola">>)
                    THEN [acc EXCEPT !.volatility = VolaOf(raw_value, @)]
                    ELSE IF command = Str(<<"last_sell_date">>) /\ Truthy(raw_value)
                    THEN [acc EXCEPT !.last_sell_date = parse_date(PyStr(raw_value))]
                    ELSE acc)

\* the entry of assets_map[name]
Entry(name, volatility, last_sell_date) ==
  [name |-> name, volatility |-> volatility, last_sell_date |-> last_sell_date]

\* the position of name in a map, 0 when the map lacks it
IndexOf(map, name) ==
  IF \E k \in 1..Len(map) : map[k].name = name
  THEN CHOOSE k \in 1..Len(map) : map[k].name = name
  ELSE 0

\* lines 84-97: a new name is stored; a stored entry without a sell date
\* takes the sell date of the line; a stored entry with one is replaced by a
\* line with a sell date and a higher volatility
StorePreset(map, name, volatility, last_sell_date) ==
  LET k == IndexOf(map, name)
  IN IF k = 0 THEN Append(map, Entry(name, volatility, last_sell_date))
     ELSE IF Truthy(last_sell_date) /\ ~Truthy(map[k].last_sell_date)
     THEN [map EXCEPT ![k].last_sell_date = last_sell_date]
     ELSE IF Truthy(last_sell_date) /\ volatility > map[k].volatility
     THEN [map EXCEPT ![k] = Entry(name, volatility, last_sell_date)]
     ELSE map

\* line.get on a node: a dict has it, a bare scalar does not
IsLine(line) == "values" \in DOMAIN line

\* the volatility and the sell date found in the values of a line
FoundInLine(line) ==
  PresetValues(line.values, 1,
               [volatility |-> None, last_sell_date |-> Null, raised |-> ""])

\* extract_volatility_and_sell_date_from_preset.walk_lines, from the i-th
\* line of lines on; an exception ends every level of the walk
RECURSIVE WalkPreset(_, _, _, _)
WalkPreset(d, lines, i, acc) ==
  IF i > Len(lines) \/ acc.raised # "" THEN acc
  ELSE LET line == d.lines[lines[i]]
       IN IF ~IsLine(line)
          THEN [acc EXCEPT !.raised = "AttributeError"]
          ELSE LET name == Get(line.name)
                   found == IF Truthy(name) THEN FoundInLine(line)
                            ELSE [volatility |-> None, last_sell_date |-> Null,
                                  raised |-> ""]
                   stored ==
                     IF found.raised # "" THEN [acc EXCEPT !.raised = found.raised]
                     ELSE IF found.volatility # None /\ found.volatility # <<0>>
                     THEN [acc EXCEPT !.assets_map =
                             StorePreset(@, name.v, found.volatility[1],
                                         found.last_sell_date)]
                     ELSE acc
                   below == WalkPreset(d, SubLines(d, lines[i]), 1, stored)
               IN WalkPreset(d, lines, i + 1, below)

\* extract_volatility_and_sell_date_from_preset(preset_data)
extract_volatility_and_sell_date_from_preset(d) ==
  WalkPreset(d, SubLines(d, 0), 1, [assets_map |-> <<>>, raised |-> ""])

\* ------------------------------------------- volatility preset inputs
VolaCell(raw) == Cell(raw, Absent, Str(<<"vola">>))
SellCell(raw) == Cell(raw, Absent, Str(<<"last_sell_date">>))
VolaSeries ==
  Mapping(<<<<<<"2025-11-28", "T", "00:00:00">>, Num(7)>>,
            <<<<"2025-11-27", "T", "00:00:00">>, Num(1)>>>>)

\* lines of the volatility preset: a group without a name; an asset with a
\* volatility alone, with a higher one and a sell date, with a lower one and
\* a sell date; an asset with a zero volatility, with a volatility series,
\* without a 'vola' cell; a node that is no dict and a cell that is no dict
PresetLines ==
  {Line(Absent, <<VolaCell(Num(5))>>),
   Line(Str(<<"A">>), <<VolaCell(Num(5))>>),
   Line(Str(<<"A">>), <<SellCell(Str(<<"2025-11-27">>)), VolaCell(Num(7))>>),
   Line(Str(<<"A">>), <<VolaCell(Num(3)),
                        SellCell(Str(<<"2025-11-28", "T", "00:00:00">>))>>),
   Line(Str(<<"B">>), <<VolaCell(Num(0)), SellCell(Str(<<"2025/11/27">>))>>),
   Line(Str(<<"B">>), <<VolaCell(VolaSeries), SellCell(Str(<<"28/11/2025">>))>>),
   Line(Str(<<"B">>), <<Cell(Num(5), Absent, Absent), VolaCell(Null)>>),
   Str(<<"n/a">>),
   Line(Str(<<"B">>), <<Num(5), VolaCell(Num(5))>>)}

\* a node that is no dict has no subLines
PresetForests(n) ==
  {d \in {Forest(p, l) : p \in Parents(n), l \in [1..n -> PresetLines]} :
     \A k \in 1..n : d.parent[k] = 0 \/ IsLine(d.lines[d.parent[k]])}

\* ------------------------------------------- volatility backfill machine
\* update_zero_volatility.main, line 266: the preset is walked
CallExtractVolatilityAndSellDateFromPreset ==
  /\ fn = "none"
  /\ \E n \in 0..MaxPresetLines : \E d \in PresetForests(n) :
        /\ fn' = "extract_volatility_and_sell_date_from_preset"
        /\ data' = d
        /\ ret' = extract_volatility_and_sell_date_from_preset(d)
  /\ UNCHANGED <<visited, txVars, extractVars, otherVars>>

\* ------------------------------------------- volatility matching
\* the words strptime parses with "%Y-%m-%d"
IsIsoDate(x) ==
  /\ x.t = "str"
  /\ Len(x.v) = 1
  /\ x.v[1] \in {"2025-11-27", "2025-11-28", "2025-11-29", "2025-11-30"}

\* lines 118-122: the parsed sell dates of the transactions that have one
RECURSIVE SellDates(_, _)
SellDates(transactions_detail, i) ==
  IF i > Len(transactions_detail) THEN <<>>
  ELSE LET date == Get(transactions_detail[i])
       IN IF Truthy(date)
          THEN <<parse_date(date)>> \o SellDates(transactions_detail, i + 1)
          ELSE SellDates(transactions_detail, i + 1)

\* get_last_sell_date_from_asset(asset_data): the latest of the sell dates,
\* or the last of them when one of them is no date
get_last_sell_date_from_asset(asset_data) ==
  LET sell_dates == SellDates(asset_data.transactions_detail, 1)
      truthy == SelectSeq(sell_dates, Truthy)
  IN IF sell_dates = <<>> THEN Null
     ELSE IF \E k \in 1..Len(truthy) : ~IsIsoDate(truthy[k])
     THEN sell_dates[Len(sell_dates)]
     ELSE IF truthy = <<>> THEN Null
     ELSE truthy[CHOOSE a \in 1..Len(truthy) :
                   \A b \in 1..Len(truthy) :
                     DayOf(truthy[b].v[1]) <= DayOf(truthy[a].v[1])]

\* the first of a set of entries of a map, 0 when the set is empty
FirstOf(S) == IF S = {} THEN 0 ELSE CHOOSE k \in S : \A j \in S : k <= j

\* asset_name in volatility_map
NameIndex(name, map) == IF name.t = "str" THEN IndexOf(map, name.v) ELSE 0

\* lines 150-153: the entry of the asset's own name
ExactMatch(name, map) ==
  LET k == NameIndex(name, map)
  IN IF k # 0 /\ map[k].volatility # 0 THEN k ELSE 0

\* a sell-date match that does not skip the entries already matched
SellDateMatchOfAny(date, map, matched) ==
  IF Truthy(date)
  THEN FirstOf({k \in 1..Len(map) : map[k].last_sell_date = date /\ map[k].volatility # 0})
  ELSE 0

\* lines 156-161: the first entry not yet matched with the asset's sell date
SellDateMatch(date, map, matched) ==
  IF Truthy(date)
  THEN FirstOf({k \in 1..Len(map) : /\ map[k].name \notin matched
                                      /\ map[k].last_sell_date = date
                                      /\ map[k].volatility # 0})
  ELSE 0

\* lines 164-170: the first entry not yet matched that has a sell date
CandidateWithDate(map, matched) ==
  FirstOf({k \in 1..Len(map) : /\ map[k].volatility # 0
                                 /\ Truthy(map[k].last_sell_date)
                                 /\ map[k].name \notin matched})

\* lines 173-178: the first entry not yet matched
Candidate(map, matched) ==
  FirstOf({k \in 1..Len(map) : map[k].volatility # 0 /\ map[k].name \notin matched})

\* the entry find_matching_volatility takes its result from and the try
\* that found it
MatchingEntry(name, date, map, matched) ==
  IF ExactMatch(name, map) # 0
  THEN [k |-> ExactMatch(name, map), try |-> "exact_name"]
  ELSE IF SellDateMatch(date, map, matched) # 0
  THEN [k |-> SellDateMatch(date, map, matched), try |-> "by_sell_date"]
  ELSE IF CandidateWithDate(map, matched) # 0
  THEN [k |-> CandidateWithDate(map, matched), try |-> "fallback"]
  ELSE IF Candidate(map, matched) # 0
  THEN [k |-> Candidate(map, matched), try |-> "fallback"]
  ELSE [k |-> 0, try |-> "none"]

\* find_matching_volatility(asset_name, sell_date, volatility_map,
\* already_matched)
find_matching_volatility(name, date, map, matched) ==
  LET entry == MatchingEntry(name, date, map, matched)
  IN IF entry.k = 0 THEN None ELSE <<map[entry.k].volatility>>

\* ------------------------------------------- volatility update
\* lines 191-201
NewStats(full) ==
  [total_assets |-> Len(full), zero_volatility_count |-> 0, updated |-> 0,
   not_updated |-> <<>>, exact_name |-> 0, by_sell_date |-> 0, fallback |-> 0]

\* an update of every asset whose volatility is 0 or null
IsZeroOrNull(asset_data) == GetOr(asset_data.volatility, Num(0)) \in {Num(0), Null}

\* lines 208-211: current_volatility == 0, a missing field being 0
IsZeroVolatility(asset_data) == GetOr(asset_data.volatility, Num(0)) = Num(0)

\* lines 230-234: the entry the match is attributed to, any entry with the
\* sell date of the asset and the volatility that was found
AttributedEntry(date, new_volatility, map) ==
  FirstOf({k \in 1..Len(map) : /\ map[k].last_sell_date = date
                                 /\ map[k].volatility = new_volatility})

\* lines 221-238: the asset is updated, the match is counted and the entry
\* it is attributed to joins already_matched
Updated(acc, i, asset_data, date, map) ==
  LET name == Get(asset_data.asset)
      new_volatility == find_matching_volatility(name, date, map, acc.already_matched)[1]
      k == NameIndex(name, map)
      a == IF Truthy(date) THEN AttributedEntry(date, new_volatility, map) ELSE 0
  IN [data |-> [acc.data EXCEPT ![i].volatility = Num(new_volatility)],
      stats |-> [acc.stats EXCEPT
                   !.zero_volatility_count = @ + 1,
                   !.updated = @ + 1,
                   !.exact_name = IF k # 0 THEN @ + 1 ELSE @,
                   !.by_sell_date = IF k = 0 /\ a # 0 THEN @ + 1 ELSE @,
                   !.fallback = IF k = 0 /\ a = 0 THEN @ + 1 ELSE @],
      already_matched |-> IF k # 0 THEN acc.already_matched \cup {name.v}
                          ELSE IF a # 0 THEN acc.already_matched \cup {map[a].name}
                          ELSE acc.already_matched,
      matches |-> Append(acc.matches,
                         [asset |-> i, already_matched |-> acc.already_matched]
                         @@ MatchingEntry(name, date, map, acc.already_matched))]

\* lines 206-243: the loop over the assets, from the i-th on; matches is the
\* list of the matches made, each with the set already_matched it was made
\* against
RECURSIVE UpdateLoop(_, _, _, _)
UpdateLoop(full, map, i, acc) ==
  IF i > Len(full) THEN acc
  ELSE LET asset_data == full[i]
           date == get_last_sell_date_from_asset(asset_data)
           found == find_matching_volatility(Get(asset_data.asset), date, map,
                                             acc.already_matched)
       IN UpdateLoop(full, map, i + 1,
            IF ~IsZeroVolatility(asset_data) THEN acc
            ELSE IF found # None THEN Updated(acc, i, asset_data, date, map)
            ELSE [acc EXCEPT !.stats.zero_volatility_count = @ + 1,
                             !.stats.not_updated = Append(@, Get(asset_data.asset))])

\* update_zero_volatility_assets(full_analysis_data, volatility_map)
update_zero_volatility_assets(full, map) ==
  UpdateLoop(full, map, 1,
             [data |-> full, stats |-> NewStats(full), already_matched |-> {},
              matches |-> <<>>])

\* ------------------------------------------- volatility update inputs
\* entries of a volatility map: the k-th entry has the k-th name
MapNames == <<<<"A">>, <<"B">>, <<"C">>, <<"D">>>>
MapEntries ==
  {[volatility |-> 5, last_sell_date |-> Str(<<"2025-11-27">>)],
   [volatility |-> 5, last_sell_date |-> Null],
   [volatility |-> 7, last_sell_date |-> Str(<<"2025-11-28">>)]}
VolatilityMaps ==
  UNION {{[k \in 1..n |-> Entry(MapNames[k], e[k].volatility, e[k].last_sell_date)] :
            e \in [1..n -> MapEntries]} : n \in 0..MaxMap}

\* assets of the analysis: one named as a map entry and one that is not, both
\* with a zero volatility; one without the field; one with a null and one
\* with a non-zero volatility
Asset(name, volatility, sell_dates) ==
  [asset |-> name, volatility |-> volatility, transactions_detail |-> sell_dates]
Assets ==
  {Asset(Str(<<"A">>), Num(0), <<>>),
   Asset(Str(<<"X">>), Num(0), <<Str(<<"2025-11-27">>)>>),
   Asset(Str(<<"Y">>), Absent,
         <<Str(<<"2025-11-28", "T", "00:00:00">>), Str(<<"2025-11-27">>), Null>>),
   Asset(Str(<<"B">>), Null, <<Str(<<"2025-11-27">>)>>),
   Asset(Str(<<"X">>), Num(4), <<Str(<<"2025-11-28">>)>>)}
AnalysisLists == UNION {[1..n -> Assets] : n \in 0..MaxAssets}

\* find_matching_volatility called for an asset against a set of entries
\* already matched
CallFindMatchingVolatility ==
  /\ fn = "none"
  /\ \E name \in {Str(<<"A">>), Str(<<"X">>), Null},
        date \in {Null, Str(<<"2025-11-27">>), Str(<<"2025-11-28">>)},
        map \in VolatilityMaps :
       \E matched \in SUBSET {map[k].name : k \in 1..Len(map)} :
        /\ fn' = "find_matching_volatility"
        /\ asset_name' = name
        /\ asset_sell_date' = date
        /\ volatility_map' = map
        /\ already_matched' = matched
        /\ ret' = find_matching_volatility(name, date, map, matched)
  /\ UNCHANGED <<full_analysis_data, mainVars, assets>>
  /\ UNCHANGED <<txVars, extractVars, walkVars>>

\* update_zero_volatility_assets called on an analysis and a map
CallUpdateZeroVolatilityAssets ==
  /\ fn = "none"
  /\ \E full \in AnalysisLists, map \in VolatilityMaps :
        /\ fn' = "update_zero_volatility_assets"
        /\ full_analysis_data' = full
        /\ volatility_map' = map
        /\ ret' = update_zero_volatility_assets(full, map)
        /\ already_matched' = update_zero_volatility_assets(full, map).already_matched
  /\ UNCHANGED <<asset_name, asset_sell_date, mainVars, assets>>
  /\ UNCHANGED <<txVars, extractVars, walkVars>>

NextBackfill ==
  \/ CallExtractVolatilityAndSellDateFromPreset
  \/ CallFindMatchingVolatility
  \/ CallUpdateZeroVolatilityAssets

SpecBackfill == Init /\ [][NextBackfill]_vars

\* ------------------------------------------- update_zero_volatility.main
\* The two input files are what the run finds on disk; writes is the list of
\* the files the run has written, in order, each with its content.
File(content) == [exists |-> TRUE, content |-> content]
Missing == [exists |-> FALSE, content |-> <<>>]
Write(file, content) == [file |-> file, content |-> content]

\* a run that backs up whenever the analysis holds an asset
HasAssets(full) == full # <<>>

\* lines 288-291: zero_vol_count is not 0
HasZeroVolatility(full) == \E i \in 1..Len(full) : IsZeroVolatility(full[i])

\* the run starts with or without each of its input files
StartMain ==
  /\ fn = "none"
  /\ \E preset \in {Missing} \cup {File(d) : d \in PresetForests(0) \cup PresetForests(1)},
        full \in {Missing} \cup {File(a) : a \in {a \in AnalysisLists : Len(a) <= 2}} :
        /\ preset_file' = preset
        /\ full_analysis_file' = full
  /\ fn' = "main"
  /\ pc' = "load_preset"
  /\ UNCHANGED <<ret, writes, backfillVars, assets>>
  /\ UNCHANGED <<txVars, extractVars, walkVars>>

\* lines 256-266: the preset is loaded and the volatility map extracted
LoadPreset ==
  /\ pc = "load_preset"
  /\ IF ~preset_file.exists
     THEN pc' = "done" /\ ret' = 1 /\ UNCHANGED volatility_map
     ELSE LET found == extract_volatility_and_sell_date_from_preset(preset_file.content)
          IN IF found.raised # ""
             THEN pc' = "raised" /\ ret' = found.raised /\ UNCHANGED volatility_map
             ELSE pc' = "load_analysis" /\ volatility_map' = found.assets_map
                  /\ UNCHANGED ret
  /\ UNCHANGED <<fn, full_analysis_data, asset_name, asset_sell_date, already_matched>>
  /\ UNCHANGED <<preset_file, full_analysis_file, writes, assets>>
  /\ UNCHANGED <<txVars, extractVars, walkVars>>

\* lines 279-293: the analysis is loaded and its zero volatilities counted
LoadAnalysis ==
  /\ pc = "load_analysis"
  /\ IF ~full_analysis_file.exists
     THEN pc' = "done" /\ ret' = 1 /\ UNCHANGED full_analysis_data
     ELSE /\ full_analysis_data' = full_analysis_file.content
          /\ IF HasZeroVolatility(full_analysis_file.content)
             THEN pc' = "backup" /\ UNCHANGED ret
             ELSE pc' = "done" /\ ret' = 0
  /\ UNCHANGED <<fn, volatility_map, asset_name, asset_sell_date, already_matched>>
  /\ UNCHANGED <<preset_file, full_analysis_file, writes, assets>>
  /\ UNCHANGED <<txVars, extractVars, walkVars>>

\* lines 296-299: the backup is written
WriteBackup ==
  /\ pc = "backup"
  /\ writes' = Append(writes, Write("backup", full_analysis_data))
  /\ pc' = "update"
  /\ UNCHANGED <<fn, ret, backfillVars, preset_file, full_analysis_file, assets>>
  /\ UNCHANGED <<txVars, extractVars, walkVars>>

\* line 304: the assets are updated in place
UpdateAssets ==
  /\ pc = "update"
  /\ full_analysis_data' =
       update_zero_volatility_assets(full_analysis_data, volatility_map).data
  /\ already_matched' =
       update_zero_volatility_assets(full_analysis_data, volatility_map).already_matched
  /\ pc' = "save"
  /\ UNCHANGED <<fn, ret, volatility_map, asset_name, asset_sell_date>>
  /\ UNCHANGED <<preset_file, full_analysis_file, writes, assets>>
  /\ UNCHANGED <<txVars, extractVars, walkVars>>

\* lines 308-309: the analysis file is overwritten
SaveAnalysis ==
  /\ pc = "save"
  /\ writes' = Append(writes, Write("full_asset_analysis", full_analysis_data))
  /\ pc' = "done"
  /\ ret' = 0
  /\ UNCHANGED <<fn, backfillVars, preset_file, full_analysis_file, assets>>
  /\ UNCHANGED <<txVars, extractVars, walkVars>>

NextMain ==
  \/ StartMain
  \/ LoadPreset
  \/ LoadAnalysis
  \/ WriteBackup
  \/ UpdateAssets
  \/ SaveAnalysis

SpecMain == Init /\ [][NextMain]_vars

\* ------------------------------------------- valuation of all assets
\* comprehensive_asset_analysis.main: an asset is a named line of the
\* security report joined with its events and its purchase price override

\* lines 368-382: the valuation of one asset of the walk
AssetResult(a) ==
  calculate_profit_and_prices(a.transactions, a.nav_time_series, a.purchase_price)

\* lines 394-398: results, in the order of the walk
Results(list) == [j \in 1..Len(list) |-> AssetResult(list[j])]

\* a total that keeps the profit of the last asset only
KeepProfit(total, profit) == profit

\* line 429: one addition of sum()
AddProfit(total, profit) == FAdd(total, profit)

\* line 429: sum(r.get("total_profit", 0.0) for r in results)
RECURSIVE TotalProfit(_)
TotalProfit(results) ==
  IF results = <<>> THEN 0
  ELSE AddProfit(TotalProfit(SubSeq(results, 1, Len(results) - 1)),
                 results[Len(results)].total_profit)

\* assets bought two days and sold one day before the reference end date,
\* and one still held, each valued from its NAV at the two days
SecurityAsset(events, a, b) ==
  [transactions |-> events,
   nav_time_series |-> (strftime(REFERENCE_END_DATE - 2) \o <<0>>) :> a
                       @@ (strftime(REFERENCE_END_DATE - 1) \o <<0>>) :> b,
   purchase_price |-> None]
RoundTrip ==
  <<Event("bought", REFERENCE_END_DATE - 2), Event("sold", REFERENCE_END_DATE - 1)>>
SecurityAssets ==
  {SecurityAsset(RoundTrip, 3, 10), SecurityAsset(RoundTrip, 1, 3),
   SecurityAsset(RoundTrip, 10, 1), SecurityAsset(RoundTrip, 3, 1),
   SecurityAsset(<<Event("bought", REFERENCE_END_DATE - 2)>>, 1, 10)}

\* lines 345-406: the assets of the report are valued in the order of the walk
ValueAssets ==
  /\ fn = "none"
  /\ \E list \in UNION {[1..n -> SecurityAssets] : n \in 0..MaxAssets} :
        /\ fn' = "walk_security_lines"
        /\ assets' = list
        /\ ret' = Results(list)
  /\ UNCHANGED <<backfillVars, mainVars>>
  /\ UNCHANGED <<txVars, extractVars, walkVars>>

\* line 429: the profits of the results are summed
SumTotalProfit ==
  /\ fn = "walk_security_lines"
  /\ fn' = "total_profit"
  /\ ret' = [results |-> ret, total_profit |-> TotalProfit(ret)]
  /\ UNCHANGED <<backfillVars, mainVars, assets>>
  /\ UNCHANGED <<txVars, extractVars, walkVars>>

NextTotal ==
  \/ ValueAssets
  \/ SumTotalProfit

SpecTotal == Init /\ [][NextTotal]_vars

\* ------------------------------------------------- properties: helpers
FoundEvents == fn = "find_buy_sell_dates" /\ time_series # <<>>

\* the calendar dates of the keys of the analysed series
SeriesDays == {parse_timestamp(time_series[k]) : k \in 1..Len(time_series)}
MinDay == CHOOSE d \in SeriesDays : \A e \in SeriesDays : d <= e
MaxDay == CHOOSE d \in SeriesDays : \A e \in SeriesDays : e <= d
NextDay(d) == CHOOSE e \in SeriesDays : e > d /\ \A f \in SeriesDays : f > d => e <= f

\* the dates followed by a gap of more than one day, and the n-th of them
GapDays == {d \in SeriesDays : d # MaxDay /\ NextDay(d) - d > 1}
NthGapDay(n) == CHOOSE d \in GapDays : Cardinality({e \in GapDays : e < d}) = n - 1

\* ------------------------------------------------------------ C1..C4
\* C1: for a non-empty series, find_buy_sell_dates emits, after the opening
\* 'bought', exactly one 'sold' at the earlier date immediately followed by one
\* 'bought' at the later date for each pair of consecutive calendar dates more
\* than 1 day apart, in date order, whatever the length of the gap, and nothing
\* for pairs 0 or 1 day apart; only the closing 'sold' may follow.
C1_GapPairs ==
  FoundEvents =>
    LET g == Cardinality(GapDays)
    IN /\ Len(ret) \in {2 * g + 1, 2 * g + 2}
       /\ \A n \in 1..g :
            /\ ret[2 * n] = Event("sold", NthGapDay(n))
            /\ ret[2 * n + 1] = Event("bought", NextDay(NthGapDay(n)))

\* a series with one pair 1 day apart and one gap of 2 days, closed before
\* the reference end date (the example 01-01, 01-02, 01-10 of the properties)
C1_Witness ==
  /\ FoundEvents
  /\ SeriesDays = {REFERENCE_END_DATE - 2, REFERENCE_END_DATE - 1, REFERENCE_END_DATE + 1}
  /\ ret = <<Event("bought", REFERENCE_END_DATE - 2),
             Event("sold", REFERENCE_END_DATE - 1),
             Event("bought", REFERENCE_END_DATE + 1),
             Event("sold", REFERENCE_END_DATE + 1)>>

\* C2: for a non-empty series, if its latest calendar date is the reference
\* end date the events end with a 'bought' (open position); if it is before or
\* after it they end with a 'sold' dated at the latest date.
C2_Closing ==
  FoundEvents =>
    /\ ret # <<>>
    /\ IF MaxDay = REFERENCE_END_DATE
       THEN ret[Len(ret)].action = "bought"
       ELSE ret[Len(ret)] = Event("sold", MaxDay)

\* a gap followed by the reference end date: sold and rebought, left open
C2_Witness ==
  /\ FoundEvents
  /\ MaxDay = REFERENCE_END_DATE
  /\ Len(ret) = 3
  /\ ret[3] = Event("bought", REFERENCE_END_DATE)

\* C3: the events alternate 'bought', 'sold', 'bought', ... starting with
\* 'bought', their dates never decrease, and a trailing 'bought' occurs only
\* when the last observed date is the reference end date.
C3_Lifecycle ==
  fn = "find_buy_sell_dates" =>
    /\ \A k \in 1..Len(ret) :
         ret[k].action = (IF k % 2 = 1 THEN "bought" ELSE "sold")
    /\ \A k \in 1..(Len(ret) - 1) : strptime(ret[k].date) <= strptime(ret[k + 1].date)
    /\ (ret # <<>> /\ ret[Len(ret)].action = "bought") => MaxDay = REFERENCE_END_DATE

\* two holdings, the second one held over more than one day and then closed
C3_Witness ==
  /\ FoundEvents
  /\ Len(ret) = 4
  /\ strptime(ret[3].date) < strptime(ret[4].date)

\* C4: for a non-empty series the first event is 'bought' at the earliest
\* calendar date of the series, in whatever order the mapping holds its keys.
C4_FirstBought ==
  FoundEvents => ret[1] = Event("bought", MinDay)

\* the earliest date is on the last key of the mapping, not on the first
C4_Witness ==
  /\ FoundEvents
  /\ Len(time_series) = MaxKeys
  /\ parse_timestamp(time_series[1]) > MinDay
  /\ parse_timestamp(time_series[Len(time_series)]) = MinDay
  /\ ret[1] = Event("bought", MinDay)

\* ----------------------------------------- properties of the valuation
\* the walk over the events ran: the call had a non-empty NAV series
Valued == fn = "calculate_profit_and_prices" /\ DOMAIN nav_time_series # {}

Details == ret.transactions_detail

\* the indexes of the 'bought' events, and the n-th of them
BoughtAt == {i \in 1..Len(transactions) : transactions[i].action = "bought"}
NthBought(n) == CHOOSE i \in BoughtAt : Cardinality({j \in BoughtAt : j < i}) = n - 1
SoldNext(i) == i + 1 \in 1..Len(transactions) /\ transactions[i + 1].action = "sold"

\* the key of the NAV series that is last in time
LatestKey ==
  CHOOSE k \in DOMAIN nav_time_series :
    \A o \in DOMAIN nav_time_series :
      \/ parse_timestamp(o) < parse_timestamp(k)
      \/ parse_timestamp(o) = parse_timestamp(k) /\ o[3] <= k[3]

\* the keys of a series dated at the day of a date string, and before it
KeysOn(date, series) == {k \in DOMAIN series : parse_timestamp(k) = strptime(date)}
KeysBefore(date, series) == {k \in DOMAIN series : parse_timestamp(k) < strptime(date)}
NoReference(date) ==
  KeysOn(date, nav_time_series) = {} /\ KeysBefore(date, nav_time_series) = {}

\* sum() of the profit fields: a left fold of float additions
RECURSIVE SumOfProfits(_)
SumOfProfits(details) ==
  IF details = <<>> THEN 0
  ELSE FAdd(SumOfProfits(SubSeq(details, 1, Len(details) - 1)), details[Len(details)].profit)

PositiveOverride == purchase_price # None /\ purchase_price[1] > 0

\* ------------------------------------------------------------ C5..C10
\* C5: the walk over the events produces one detail per 'bought' event, in
\* order; the detail of a 'bought' immediately followed by a 'sold' has that
\* 'sold' as its sell, the detail of any other 'bought' has the date and the
\* value of the last NAV key as its sell; a 'sold' is the sell of at most the
\* 'bought' right before it, and a 'sold' without one produces no detail.
C5_Pairing ==
  Valued =>
    /\ Len(Details) = Cardinality(BoughtAt)
    /\ \A n \in 1..Len(Details) :
         LET i == NthBought(n)
         IN /\ Details[n].buy_date = transactions[i].date
            /\ IF SoldNext(i)
               THEN Details[n].sell_date = transactions[i + 1].date
               ELSE /\ Details[n].sell_date = strftime(parse_timestamp(LatestKey))
                    /\ Details[n].sell_nav = nav_time_series[LatestKey]

\* bought, bought, sold: the first 'bought' gets the synthetic sell, the second
\* one the 'sold' that follows it
C5_Witness ==
  /\ Valued
  /\ Len(transactions) = 3
  /\ transactions[1].action = "bought"
  /\ transactions[2].action = "bought"
  /\ transactions[3].action = "sold"
  /\ Len(Details) = 2
  /\ Details[1].sell_date # transactions[3].date
  /\ Details[2].sell_date = transactions[3].date

\* C6: find_timestamp_key returns a key dated at the day asked for when the
\* series has one; otherwise a key of the latest day before it; and None when
\* the series has no key on or before that day.
C6_NearestPast ==
  fn = "find_timestamp_key" =>
    LET on == KeysOn(date_str, nav_time_series)
        before == KeysBefore(date_str, nav_time_series)
    IN IF on # {} THEN ret \in on
       ELSE IF before # {}
            THEN /\ ret \in before
                 /\ \A o \in before : parse_timestamp(o) <= parse_timestamp(ret)
            ELSE ret = None

\* no key on the day, one before it and one after it
C6_Witness ==
  /\ fn = "find_timestamp_key"
  /\ KeysOn(date_str, nav_time_series) = {}
  /\ ret \in KeysBefore(date_str, nav_time_series)
  /\ \E o \in DOMAIN nav_time_series : parse_timestamp(o) > strptime(date_str)

\* C7: when the NAV series has no key on or before a buy date or a paired sell
\* date, that reference value is 0, the call still returns without an error,
\* the detail is still there and its profit is part of total_profit.
C7_MissingReference ==
  Valued =>
    /\ ret.error = ""
    /\ Len(Details) = Cardinality(BoughtAt)
    /\ ret.total_profit = SumOfProfits(Details)
    /\ \A n \in 1..Len(Details) :
         LET i == NthBought(n)
         IN /\ NoReference(transactions[i].date) => Details[n].buy_nav = 0
            /\ (SoldNext(i) /\ NoReference(transactions[i + 1].date))
                 => Details[n].sell_nav = 0

\* a buy before all NAV data: valued at 0, so the whole sell value is profit
C7_Witness ==
  /\ Valued
  /\ Len(Details) = 1
  /\ NoReference(Details[1].buy_date)
  /\ Details[1].buy_nav = 0
  /\ Details[1].profit = Details[1].sell_nav
  /\ ret.total_profit # 0

\* C8: in every detail profit is sell_nav - buy_nav, whatever the override, and
\* total_profit is the sum of the profits of the details (0 without details).
C8_Profit ==
  fn = "calculate_profit_and_prices" =>
    /\ \A n \in 1..Len(Details) : Details[n].profit = FSub(Details[n].sell_nav, Details[n].buy_nav)
    /\ ret.total_profit = SumOfProfits(Details)

\* two details with a profit each, under a positive override
C8_Witness ==
  /\ Valued
  /\ PositiveOverride
  /\ Len(Details) = 2
  /\ Details[1].profit # 0
  /\ Details[2].profit # 0
  /\ ret.total_profit = FAdd(Details[1].profit, Details[2].profit)

\* C9: in every detail purchase_price is the override when it is present and
\* greater than zero, and buy_nav when it is absent, zero or negative.
C9_PurchasePrice ==
  fn = "calculate_profit_and_prices" =>
    \A n \in 1..Len(Details) :
      Details[n].purchase_price = (IF PositiveOverride THEN purchase_price[1]
                                   ELSE Details[n].buy_nav)

\* an override of zero is not used
C9_Witness ==
  /\ Valued
  /\ purchase_price = <<0>>
  /\ Details # <<>>
  /\ Details[1].purchase_price = Details[1].buy_nav
  /\ Details[1].buy_nav # 0

\* C10 as stated: selling_price is purchase_price + profit and, without a
\* positive override, equals sell_nav.
C10_AsStated ==
  fn = "calculate_profit_and_prices" =>
    \A n \in 1..Len(Details) :
      /\ Details[n].selling_price = FAdd(Details[n].purchase_price, Details[n].profit)
      /\ ~PositiveOverride => Details[n].selling_price = Details[n].sell_nav

\* C10 as amended: selling_price is the float sum purchase_price + profit;
\* without a positive override it equals sell_nav whenever the subtraction
\* sell_nav - buy_nav was exact.
C10_SellingPrice ==
  fn = "calculate_profit_and_prices" =>
    \A n \in 1..Len(Details) :
      /\ Details[n].selling_price = FAdd(Details[n].purchase_price, Details[n].profit)
      /\ (~PositiveOverride /\ Details[n].profit = Details[n].sell_nav - Details[n].buy_nav)
           => Details[n].selling_price = Details[n].sell_nav

\* no override, an exact non-zero profit: the selling price is the sell NAV
C10_Witness ==
  /\ Valued
  /\ purchase_price = None
  /\ Details # <<>>
  /\ Details[1].profit # 0
  /\ Details[1].profit = Details[1].sell_nav - Details[1].buy_nav
  /\ Details[1].buy_nav # 0
  /\ Details[1].selling_price = Details[1].sell_nav

\* ------------------------------------------------------------ C20
\* the analysed series reduced to one midnight key per calendar date
OneKeyPerDay == sorted_keys({strftime(d) \o <<0>> : d \in SeriesDays})

\* C20: find_buy_sell_dates compares calendar dates only: the events of a
\* series are those of the series with one timestamp per calendar date (adding
\* timestamps on a date already present changes nothing), and no 'sold' is
\* immediately followed by a 'bought' of the same date.
C20_CalendarDatesOnly ==
  FoundEvents =>
    /\ ret = find_buy_sell_dates(OneKeyPerDay)
    /\ \A k \in 1..(Len(ret) - 1) :
         ~(ret[k].action = "sold" /\ ret[k + 1].action = "bought"
           /\ ret[k].date = ret[k + 1].date)

\* two timestamps of one day followed, after a gap, by a third day
C20_Witness ==
  /\ FoundEvents
  /\ Len(time_series) = 3
  /\ Cardinality(SeriesDays) = 2
  /\ \E a, b \in 1..3 : a # b /\ parse_timestamp(time_series[a]) = MinDay
                         /\ parse_timestamp(time_series[b]) = MinDay
  /\ MaxDay - MinDay > 1
  /\ Len(ret) >= 3

\* ------------------------------------------------------------ C11..C15
ExtractedMetrics == fn = "extract_metrics_from_asset"
MetricNames == {"volatility", "interest_rate", "purchase_price", "price"}

\* whether the header at index i satisfies the predicate of the metric
Satisfies(metric, i) ==
  LET cmd == Cmd(headers[i + 1])
      name == Name(headers[i + 1])
  IN CASE metric = "volatility" -> MatchesVolatility(cmd, name)
       [] metric = "interest_rate" -> MatchesInterestRate(cmd, name)
       [] metric = "purchase_price" -> MatchesPurchasePrice(cmd, name)
       [] metric = "price" -> MatchesPrice(cmd, name)
MatchingIndices(metric) == {i \in 0..(Len(headers) - 1) : Satisfies(metric, i)}
LowestMatch(metric) ==
  CHOOSE i \in MatchingIndices(metric) : \A j \in MatchingIndices(metric) : i <= j

\* C11: header resolution is first-match-wins: every metric of
\* extract_metrics_from_asset, and the result of extract_volatility_index, is
\* bound to the lowest index of a header satisfying its predicate, and to
\* nothing when no header does.
C11_FirstMatchWins ==
  /\ ExtractedMetrics =>
       \A metric \in MetricNames :
         IF MatchingIndices(metric) = {}
         THEN metric \notin DOMAIN metric_indices
         ELSE /\ metric \in DOMAIN metric_indices
              /\ metric_indices[metric] = LowestMatch(metric)
  /\ fn = "extract_volatility_index" =>
       ret = (IF MatchingIndices("volatility") = {} THEN None
              ELSE <<LowestMatch("volatility")>>)

\* C12: the header bound to 'price' contains 'price' in its lower-cased name
\* or command and contains neither 'purchase' nor 'buy' in either of them.
C12_PriceExcludesPurchaseAndBuy ==
  (ExtractedMetrics /\ "price" \in DOMAIN metric_indices) =>
    LET cmd == Cmd(headers[metric_indices["price"] + 1])
        name == Name(headers[metric_indices["price"] + 1])
    IN /\ In(<<"price">>, cmd) \/ In(<<"price">>, name)
       /\ ~In(<<"purchase">>, cmd) /\ ~In(<<"purchase">>, name)
       /\ ~In(<<"buy">>, cmd) /\ ~In(<<"buy">>, name)

PurchasePriceHeader == HeaderDict(Str(<<"purchase", "_", "price">>), Absent)
PriceHeader == HeaderDict(Str(<<"price">>), Absent)

\* C13: the headers [{command: 'purchase_price'}, {command: 'price'}] resolve
\* purchase_price to index 0 and price to index 1; and whatever the headers
\* and their order, the header bound to 'price' has no 'purchase' in its
\* command.
C13_PurchaseIsNotPrice ==
  ExtractedMetrics =>
    /\ headers = <<PurchasePriceHeader, PriceHeader>> =>
         /\ {"purchase_price", "price"} \subseteq DOMAIN metric_indices
         /\ metric_indices["purchase_price"] = 0
         /\ metric_indices["price"] = 1
    /\ "price" \in DOMAIN metric_indices =>
         ~In(<<"purchase">>, Cmd(headers[metric_indices["price"] + 1]))

\* the two headers of the example, and the same two in the other order
C13_Witness ==
  /\ ExtractedMetrics
  /\ \/ headers = <<PurchasePriceHeader, PriceHeader>> /\ metric_indices["price"] = 1
     \/ headers = <<PriceHeader, PurchasePriceHeader>> /\ metric_indices["price"] = 0
  /\ values # <<>>

\* C14: get_cell_value returns the rawValue of a structured cell when it is
\* present and not null, otherwise its value field, null when it has neither,
\* and a bare scalar itself.
C14_ScalarExtraction ==
  fn = "get_cell_value" =>
    IF cell.t # "cell" THEN ret = cell
    ELSE IF cell.rawValue \notin {Absent, Null} THEN ret = cell.rawValue
    ELSE IF cell.value # Absent THEN ret = cell.value
    ELSE ret = Null

\* a rawValue of 0 next to a value of 3: the rawValue is returned
C14_Witness ==
  /\ fn = "get_cell_value"
  /\ cell.t = "cell"
  /\ cell.rawValue = Num(0)
  /\ cell.value = Num(3)
  /\ ret = Num(0)

IsIsoDateTime(key) == Len(key) = 3 /\ key[2] = "T"
EveryEntryIsAPoint(m) ==
  /\ m.t = "dict"
  /\ m.v # <<>>
  /\ \A k \in 1..Len(m.v) : IsIsoDateTime(m.v[k][1]) /\ m.v[k][2].t = "num"
FirstEntryLooksLikeAPoint(m) ==
  /\ m.t = "dict"
  /\ m.v # <<>>
  /\ \E k \in 1..Len(m.v[1][1]) : m.v[1][1][k] \in {"T", "Total"}
  /\ m.v[1][2].t = "num"
StoredSeries == {ret["time_series"].v[k] : k \in DOMAIN ret["time_series"].v}

C19_UnresolvedMetric ==
  fn = "main" =>
    /\ "time_series" \in DOMAIN asset_metrics
    /\ \A metric \in MetricNames :
         IF MatchingIndices(metric) = {} \/ metric_indices[metric] >= Len(values)
         THEN /\ metric \notin DOMAIN asset_metrics
              /\ metric \in DOMAIN ret => ret[metric] = Null
         ELSE /\ metric \in DOMAIN asset_metrics
              /\ asset_metrics[metric] = get_cell_value(values[metric_indices[metric] + 1])
              /\ metric \in DOMAIN ret => ret[metric] = asset_metrics[metric]

\* the volatility column lies beyond the values of the node, no header is a
\* purchase price, and the interest rate is read
C19_Witness ==
  /\ fn = "main"
  /\ "volatility" \in DOMAIN metric_indices
  /\ metric_indices["volatility"] >= Len(values)
  /\ MatchingIndices("purchase_price") = {}
  /\ ret.volatility = Null
  /\ ret.purchase_price = Null
  /\ ret.interest_rate = Num(5)

\* ------------------------------------------------------------ C16..C18
Nodes == 1..Len(data.parent)
Named(k) == data.lines[k].name \notin {Absent, Null, Str(<<>>)}

\* the nodes from resultLine down to node k
RECURSIVE PathTo(_)
PathTo(k) == IF data.parent[k] = 0 THEN <<k>> ELSE Append(PathTo(data.parent[k]), k)

\* pre-order: x is above y, or in a sibling subtree that comes earlier in
\* their common subLines list
Before(x, y) ==
  LET px == PathTo(x)
      py == PathTo(y)
  IN \E j \in 1..(Min(Len(px), Len(py)) + 1) :
       /\ \A i \in 1..(j - 1) : px[i] = py[i]
       /\ \/ j > Len(px) /\ j <= Len(py)
          \/ j <= Len(px) /\ j <= Len(py) /\ px[j] < py[j]

\* C16: the walk of extract_all_assets_with_metrics ends having processed
\* every node of the tree exactly once, nodes below a node without a name
\* included, and the keys of its result are exactly the non-empty names.
C16_WalkVisitsAll ==
  fn = "extract_all_assets_with_metrics" =>
    /\ Len(visited) = Len(data.parent)
    /\ {visited[k] : k \in 1..Len(visited)} = Nodes
    /\ DOMAIN ret = {data.lines[k].name.v : k \in {n \in Nodes : Named(n)}}

\* a group without a name holding a named node that holds another one
C16_Witness ==
  /\ fn = "extract_all_assets_with_metrics"
  /\ data.parent = <<0, 1, 2>>
  /\ data.lines[1].name = Absent
  /\ Named(2) /\ Named(3)
  /\ data.lines[2].name # data.lines[3].name
  /\ Cardinality(DOMAIN ret) = 2

\* C17: the records appended by analyze_volatility.walk_lines and by
\* process_assets are in pre-order: the record of a node precedes those of
\* the nodes below it, and the records of sibling subtrees follow the order
\* of the subLines list.
C17_PreOrder ==
  fn \in {"walk_lines", "process_assets"} =>
    \A a, b \in 1..Len(ret) : a < b => Before(ret[a].line, ret[b].line)

\* three records, the second one from a node below the first and the third
\* from the sibling that follows the first
C17_Witness ==
  /\ fn = "walk_lines"
  /\ data.parent = <<0, 0, 1>>
  /\ Len(ret) = 3
  /\ ret[1].line = 1 /\ ret[2].line = 3 /\ ret[3].line = 2

\* the metrics of the nodes named name, in the order the walk met them
Occurrences(name) ==
  LET met == SelectSeq(visited, LAMBDA k : Named(k) /\ data.lines[k].name.v = name)
  IN [k \in 1..Len(met) |-> extract_metrics_from_asset(data.lines[met[k]].values, headers)]

\* C18: for every asset and key, the merged record holds the value of the
\* first occurrence whose value for the key is not null; null when the key
\* occurs with null only; and the key is missing when no occurrence has it.
C18_FirstNonNullWins ==
  fn = "extract_all_assets_with_metrics" =>
    \A name \in DOMAIN ret :
      LET occ == Occurrences(name)
      IN \A key \in MetricNames \cup {"time_series"} :
           LET has == {k \in 1..Len(occ) : key \in DOMAIN occ[k]}
               set == {k \in has : occ[k][key] # Null}
           IN IF set # {}
              THEN /\ key \in DOMAIN ret[name]
                   /\ ret[name][key] = occ[CHOOSE k \in set : \A j \in set : k <= j][key]
              ELSE IF has # {}
              THEN key \in DOMAIN ret[name] /\ ret[name][key] = Null
              ELSE key \notin DOMAIN ret[name]

\* {volatility: 5}, then {volatility: null, interest_rate: 2}, then
\* {volatility: 7, interest_rate: 3}: the result is {volatility: 5,
\* interest_rate: 2}
C18_Witness ==
  /\ fn = "extract_all_assets_with_metrics"
  /\ Len(visited) = 3
  /\ data.lines[visited[1]] = Line(Str(<<"A">>), <<Num(5)>>)
  /\ data.lines[visited[2]] = Line(Str(<<"A">>), <<Cell(Null, Absent, Absent), Num(2)>>)
  /\ data.lines[visited[3]] = Line(Str(<<"A">>), <<Num(7), Num(3)>>)
  /\ ret[<<"A">>]["volatility"] = Num(5)
  /\ ret[<<"A">>]["interest_rate"] = Num(2)

\* ------------------------------------------------------------ C21
\* C21: find_buy_sell_dates on an empty series returns no event, and
\* calculate_profit_and_prices on an empty or absent NAV series returns a
\* total profit of 0.0 and no detail, whatever the events.
C21_EmptySeries ==
  /\ (fn = "find_buy_sell_dates" /\ time_series = <<>>) => ret = <<>>
  /\ (fn = "calculate_profit_and_prices" /\ DOMAIN nav_time_series = {}) =>
       /\ ret.total_profit = 0
       /\ ret.transactions_detail = <<>>

\* a 'bought' followed by a 'sold' valued against no NAV series
C21_Witness ==
  /\ fn = "calculate_profit_and_prices"
  /\ DOMAIN nav_time_series = {}
  /\ Len(transactions) >= 2
  /\ transactions[1].action = "bought"
  /\ transactions[2].action = "sold"
  /\ ret.total_profit = 0

\* ------------------------------------------------------------ C30
\* the days a series must hold for find_buy_sell_dates to emit the events:
\* every day from each 'bought' to the 'sold' that follows it, and from a
\* trailing 'bought' to the reference end date
HeldDays(events) ==
  UNION {IF events[k].action # "bought" THEN {}
         ELSE IF k + 1 <= Len(events)
         THEN strptime(events[k].date)..strptime(events[k + 1].date)
         ELSE strptime(events[k].date)..REFERENCE_END_DATE
         : k \in 1..Len(events)}
EmittedByFindBuySellDates(events) ==
  /\ events # <<>>
  /\ events[1].action = "bought"
  /\ find_buy_sell_dates(sorted_keys({strftime(d) \o <<0>> : d \in HeldDays(events)})) = events

\* C30: in every detail valued from events emitted by find_buy_sell_dates
\* and a non-empty NAV series, sell_date is not earlier than buy_date, the
\* synthetic sell at the last NAV date included.
C30_SellNotBeforeBuy ==
  (Valued /\ EmittedByFindBuySellDates(transactions)) =>
    \A n \in 1..Len(Details) :
      strptime(Details[n].sell_date) >= strptime(Details[n].buy_date)

\* ------------------------------------------------------------ C22, C27
PresetWalked == fn = "extract_volatility_and_sell_date_from_preset"
PresetNodes == 1..Len(data.parent)

\* node k is a dict with a name whose cells are dicts and hold a non-zero
\* volatility
AssetWithVolatility(k) ==
  /\ IsLine(data.lines[k])
  /\ Truthy(Get(data.lines[k].name))
  /\ FoundInLine(data.lines[k]).raised = ""
  /\ FoundInLine(data.lines[k]).volatility # None

\* C22: a node or a cell that is no object of the expected shape is skipped
\* and the walk goes on: the call returns, and every well-formed asset of the
\* tree has its record.
C22_MalformedNodeIsSkipped ==
  PresetWalked =>
    /\ ret.raised = ""
    /\ \A k \in PresetNodes :
         AssetWithVolatility(k) =>
           IndexOf(ret.assets_map, data.lines[k].name.v) # 0

\* C27: every stored entry has a non-zero volatility, and its volatility and
\* its last_sell_date are those of one line of that name.
C27_EntryOfOneLine ==
  (PresetWalked /\ ret.raised = "") =>
    \A e \in 1..Len(ret.assets_map) :
      /\ ret.assets_map[e].volatility # 0
      /\ \E k \in PresetNodes :
           /\ AssetWithVolatility(k)
           /\ data.lines[k].name.v = ret.assets_map[e].name
           /\ FoundInLine(data.lines[k]).volatility = <<ret.assets_map[e].volatility>>
           /\ FoundInLine(data.lines[k]).last_sell_date = ret.assets_map[e].last_sell_date

\* ------------------------------------------------------------ C25
Matched == fn = "find_matching_volatility"
MapIndices == 1..Len(volatility_map)
OwnEntry == {k \in MapIndices : asset_name = Str(volatility_map[k].name)}
Unmatched == {k \in MapIndices : volatility_map[k].name \notin already_matched}
UnmatchedOnSellDate ==
  {k \in Unmatched : asset_sell_date # Null
                     /\ volatility_map[k].last_sell_date = asset_sell_date}
UnmatchedWithDate == {k \in Unmatched : volatility_map[k].last_sell_date # Null}
VolatilityOfFirst(S) ==
  <<volatility_map[CHOOSE k \in S : \A j \in S : k <= j].volatility>>

\* C25: find_matching_volatility returns the volatility of the asset's own
\* entry whatever already_matched holds; else that of the first entry not
\* yet matched with the asset's sell date; else that of the first entry not
\* yet matched that has a sell date; else that of the first entry not yet
\* matched; and None only when every entry is matched.
C25_DocumentedPriority ==
  Matched =>
    ret = IF OwnEntry # {} THEN VolatilityOfFirst(OwnEntry)
          ELSE IF UnmatchedOnSellDate # {} THEN VolatilityOfFirst(UnmatchedOnSellDate)
          ELSE IF UnmatchedWithDate # {} THEN VolatilityOfFirst(UnmatchedWithDate)
          ELSE IF Unmatched # {} THEN VolatilityOfFirst(Unmatched)
          ELSE None

\* the first entry with the sell date of the asset is already matched and
\* the second one, of another volatility than the first dated one, is returned
C25_Witness ==
  /\ Matched
  /\ OwnEntry = {}
  /\ Len(volatility_map) = 2
  /\ volatility_map[1].name \in already_matched
  /\ volatility_map[1].last_sell_date = Str(<<"2025-11-27">>)
  /\ UnmatchedOnSellDate = {2}
  /\ asset_sell_date = Str(<<"2025-11-28">>)
  /\ ret = <<7>>

\* ------------------------------------------------------------ C26, C28
Updating == fn = "update_zero_volatility_assets"

\* C26: an entry that supplied a volatility through sell-date matching is in
\* already_matched afterwards and supplies no later asset through sell-date
\* or fallback matching.
C26_SupplierNeverChosenAgain ==
  Updating =>
    \A i \in 1..Len(ret.matches) :
      ret.matches[i].try = "by_sell_date" =>
        /\ volatility_map[ret.matches[i].k].name \in ret.already_matched
        /\ \A j \in (i + 1)..Len(ret.matches) :
             ~ /\ ret.matches[j].k = ret.matches[i].k
               /\ ret.matches[j].try \in {"by_sell_date", "fallback"}

\* the assets of the analysis whose volatility is 0 or missing
ZeroVolatilityAssets ==
  {i \in 1..Len(full_analysis_data) :
     full_analysis_data[i].volatility \in {Absent, Num(0)}}

\* C28: the update changes nothing but the volatility of assets whose
\* volatility is 0 or missing, every asset it changes ends with a non-zero
\* volatility, zero_volatility_count = updated + len(not_updated), and the
\* three match counters add up to updated.
C28_OnlyZeroVolatilityUpdated ==
  Updating =>
    /\ Len(ret.data) = Len(full_analysis_data)
    /\ \A i \in 1..Len(full_analysis_data) :
         /\ ret.data[i].asset = full_analysis_data[i].asset
         /\ ret.data[i].transactions_detail = full_analysis_data[i].transactions_detail
         /\ i \notin ZeroVolatilityAssets => ret.data[i] = full_analysis_data[i]
         /\ ret.data[i] # full_analysis_data[i] =>
              /\ ret.data[i].volatility.t = "num"
              /\ ret.data[i].volatility.v # 0
    /\ ret.stats.total_assets = Len(full_analysis_data)
    /\ ret.stats.zero_volatility_count = Cardinality(ZeroVolatilityAssets)
    /\ ret.stats.zero_volatility_count
         = ret.stats.updated + Len(ret.stats.not_updated)
    /\ ret.stats.updated
         = Cardinality({i \in ZeroVolatilityAssets : ret.data[i] # full_analysis_data[i]})
    /\ ret.stats.exact_name + ret.stats.by_sell_date + ret.stats.fallback
         = ret.stats.updated

\* one asset is updated, one finds no match, one has a null volatility
C28_Witness ==
  /\ Updating
  /\ ret.stats.updated = 1
  /\ Len(ret.stats.not_updated) = 1
  /\ \E i \in 1..Len(full_analysis_data) : full_analysis_data[i].volatility = Null

\* ------------------------------------------------------------ C29
Running == fn = "main"
ZeroVolatilityOnDisk ==
  \E i \in 1..Len(full_analysis_file.content) :
    full_analysis_file.content[i].volatility \in {Absent, Num(0)}
NothingToUpdate ==
  \/ ~preset_file.exists
  \/ ~full_analysis_file.exists
  \/ ~ZeroVolatilityOnDisk

\* C29: with an asset of zero volatility the run writes the backup first, with
\* the analysis as it was loaded, then the analysis file; with none, or with
\* an input file missing, it writes neither.
C29_BackupBeforeUpdate ==
  Running =>
    /\ NothingToUpdate => writes = <<>>
    /\ writes # <<>> =>
         writes[1] = Write("backup", full_analysis_file.content)
    /\ Len(writes) > 1 =>
         /\ Len(writes) = 2
         /\ writes[2].file = "full_asset_analysis"
    /\ pc \in {"load_preset", "load_analysis", "backup"} => writes = <<>>
    /\ pc = "backup" => full_analysis_data = full_analysis_file.content
    /\ (pc = "done" /\ ~NothingToUpdate) => Len(writes) = 2

\* the run has ended, an asset was updated, and the backup differs from the
\* analysis that was saved
C29_Witness ==
  /\ Running
  /\ pc = "done"
  /\ Len(writes) = 2
  /\ writes[1].content # writes[2].content

\* ------------------------------------------------------------ C23
\* the nesting depth of node k below resultLine
Depth(k) == Len(PathTo(k))

\* C23: a walk of a tree nested deeper than the bound fails instead of
\* recursing on: it processes no node below the bound.
C23_RecursionDepthBounded ==
  (fn \in {"extract_all_assets_with_metrics", "walk_lines"}
   /\ \E k \in Nodes : Depth(k) > DepthBound) =>
     \A j \in 1..Len(visited) : Depth(visited[j]) <= DepthBound

\* ------------------------------------------------------------ C24
Summed == fn = "total_profit"
Orders == {o \in [1..Len(assets) -> 1..Len(assets)] :
             \A a, b \in 1..Len(assets) : a # b => o[a] # o[b]}
InOrder(o) == [j \in 1..Len(assets) |-> assets[o[j]]]

\* the sum of the first n profits, without rounding
RECURSIVE SumOfFirst(_, _)
SumOfFirst(results, n) ==
  IF n = 0 THEN 0 ELSE SumOfFirst(results, n - 1) + results[n].total_profit

\* no addition of the sum rounds
ExactSums(results) ==
  \A n \in 1..Len(results) : FRound(SumOfFirst(results, n)) = SumOfFirst(results, n)

\* C24 as stated: valued in any other order, every asset has the same total
\* profit and the sum of the total profits is the same.
C24_AnyOrderSameSum ==
  Summed =>
    \A o \in Orders :
      /\ \A j \in 1..Len(assets) :
           Results(InOrder(o))[j].total_profit = ret.results[o[j]].total_profit
      /\ TotalProfit(Results(InOrder(o))) = ret.total_profit

\* C24: valued in any other order, every asset has the same total profit,
\* and the sum of the total profits is the same whenever no addition of
\* either sum rounds.
C24_ExactSumsAgree ==
  Summed =>
    \A o \in Orders :
      /\ \A j \in 1..Len(assets) :
           Results(InOrder(o))[j].total_profit = ret.results[o[j]].total_profit
      /\ (ExactSums(ret.results) /\ ExactSums(Results(InOrder(o)))) =>
           TotalProfit(Results(InOrder(o))) = ret.total_profit

\* three assets of different profits whose sum is exact in two orders that
\* end with different assets
C24_Witness ==
  /\ Summed
  /\ Len(assets) = 3
  /\ ret.results[1].total_profit # ret.results[3].total_profit
  /\ ret.results[1].total_profit # ret.results[2].total_profit
  /\ ret.total_profit # 0
  /\ ExactSums(ret.results)
  /\ ExactSums(Results(InOrder(<<3, 2, 1>>)))
====
